---- MODULE Spec2Model ----
(***************************************************************************)
(* ENS compute gateway: canonical envelope (digest, signature, wire        *)
(* encoding), sliding-window rate limiter and the request pipeline.        *)
(*                                                                         *)
(* Text is a sequence of tokens.  The two characters JSON escapes, the     *)
(* double quote and the backslash, are always tokens of their own; every   *)
(* other token is a run of characters that JSON.stringify copies as is.    *)
(* Flat(text) is the string itself, and preimages are compared as strings. *)
(*                                                                         *)
(* keccak256 and secp256k1 are symbolic: a hash is the record of its       *)
(* preimage (so it is collision free) and a signature is the record of the *)
(* key and the message hash it was made with.                              *)
(***************************************************************************)
EXTENDS Integers, Sequences, FiniteSets, TLC

VARIABLES
  wallet,      \* the gateway's signing key (part_000 line 28)
  cur,         \* the envelope built last, with its wire tuple
  prev,        \* the envelope built before it
  probe,       \* the last verifyEnvelope or computeDigest call made on cur
  now,         \* Date.now(), in ms
  store,       \* store[l]: the Map of limiter l, key -> timestamps admitted
  hist,        \* history: hist[l][k] is every time check(k) of l returned true
  last,        \* the last limiter call: what was called and what it returned
  reqs,        \* reqs[r]: the request in slot r and how far its handling got
  running      \* the request whose callback the event loop is running, or 0

envVars == <<wallet, cur, prev, probe>>
rlVars == <<store, hist, last>>
gwVars == <<reqs, running>>
vars == <<wallet, cur, prev, probe, now, store, hist, last, reqs, running>>

None == [t |-> "none"]

---------------------------------------------------------------------------
(* JavaScript values *)

Undefined == [t |-> "undefined"]
Null == [t |-> "null"]
Str(s) == [t |-> "string", s |-> s]
Num(n) == [t |-> "number", n |-> n]
Bool(b) == [t |-> "boolean", b |-> b]
Obj(kv) == [t |-> "object", kv |-> kv]

\* typeof v === 'string'
IsString(v) == v.t = "string"

\* ToBoolean(v): what `v || d` and `if (v)` test
Truthy(v) ==
  CASE v.t = "undefined" -> FALSE
    [] v.t = "null" -> FALSE
    [] v.t = "string" -> v.s # <<>>
    [] v.t = "number" -> v.n # 0
    [] v.t = "boolean" -> v.b
    [] OTHER -> TRUE

\* v || d
OrElse(v, d) == IF Truthy(v) THEN v ELSE d

\* obj[key]
Get(obj, key) ==
  LET hits == SelectSeq(obj.kv, LAMBDA p : p[1] = key)
  IN IF hits = <<>> THEN Undefined ELSE hits[Len(hits)][2]

\* a destructuring default `key = d`: d replaces undefined only
GetDefault(obj, key, d) == IF Get(obj, key) = Undefined THEN d ELSE Get(obj, key)

\* the string a text stands for: its tokens joined
RECURSIVE Flat(_)
Flat(text) ==
  IF Len(text) = 0 THEN ""
  ELSE IF Len(text) = 1 THEN text[1]
  ELSE LET m == Len(text) \div 2
       IN Flat(SubSeq(text, 1, m)) \o Flat(SubSeq(text, m + 1, Len(text)))

\* JSON.stringify's string escaping (QuoteJSONString) of one token: every "
\* and every \ gets a backslash before it.  A token that holds them holds
\* nothing else: it is " or \, or what one escaping made of these.
escapeToken(tok) ==
  CASE tok = "\"" -> "\\\""
    [] tok = "\\" -> "\\\\"
    [] tok = "\\\"" -> "\\\\\\\""
    [] tok = "\\\\" -> "\\\\\\\\"
    [] OTHER -> tok

EscapeJSON(text) == [i \in DOMAIN text |-> escapeToken(text[i])]

RECURSIVE JSONstringify(_)
RECURSIVE StringifyMembers(_)
\* the members of an object in insertion order; undefined members are left out
StringifyMembers(kv) ==
  IF kv = <<>> THEN <<>>
  ELSE LET h == Head(kv)
           rest == StringifyMembers(Tail(kv))
       IN IF h[2].t = "undefined" THEN rest
          ELSE <<"\"", h[1], "\"", ":">> \o JSONstringify(h[2])
               \o (IF rest = <<>> THEN <<>> ELSE <<",">> \o rest)

\* JSON.stringify(v) as text
JSONstringify(v) ==
  CASE v.t = "null" -> <<"null">>
    [] v.t = "number" -> <<ToString(v.n)>>
    [] v.t = "boolean" -> <<IF v.b THEN "true" ELSE "false">>
    [] v.t = "string" -> <<"\"">> \o EscapeJSON(v.s) \o <<"\"">>
    [] v.t = "object" -> <<"{">> \o StringifyMembers(v.kv) \o <<"}">>

---------------------------------------------------------------------------
(* Cryptography, symbolic *)

\* ethers.keccak256(ethers.toUtf8Bytes(text))
keccak256(text) == [t |-> "bytes32", pre |-> Flat(text)]

EIP191Prefix == "\\x19Ethereum Signed Message:\\n32"

\* keccak256(concat([toUtf8Bytes(prefix), getBytes(digest)]))
messageHashOf(prefix, digest) == [t |-> "bytes32", prefix |-> prefix, of |-> digest]

Keys == {"key1", "key2"}

\* new ethers.Wallet(key).address: the checksummed (mixed-case) address
Address(key) == IF key = "key1" THEN "0xAb01" ELSE "0xCd02"

\* String.prototype.toLowerCase on the addresses of the model
toLowerCase(a) ==
  CASE a \in {"0xAb01", "0xab01"} -> "0xab01"
    [] a \in {"0xCd02", "0xcd02"} -> "0xcd02"
    [] OTHER -> a

Addresses == {"0xAb01", "0xab01", "0xCd02", "0xcd02"}

\* wallet.signingKey.sign(hash), serialized r || s || v
sign(key, hash) == [t |-> "signature", key |-> key, hash |-> hash]

\* ethers.recoverAddress(hash, sig): the signer when sig was made over hash,
\* and otherwise the address of a key nobody holds
recoverAddress(hash, sig) ==
  IF sig.hash = hash THEN Address(sig.key) ELSE "0xffff"

---------------------------------------------------------------------------
(* Canonical envelope: gateway/utils/envelope (src/gateway/utils/signer.js) *)

\* Array.prototype.sort on the keys an envelope can have (code-unit order)
KeyOrder ==
  <<"cache_ttl", "cursor", "digest", "meta", "method", "name", "params",
    "prev_digest", "result", "signature">>

HasKey(obj, key) == \E i \in DOMAIN obj.kv : obj.kv[i][1] = key

\* Object.keys(obj).sort().reduce(...): the same members, keys ascending
SortKeys(obj) ==
  LET keys == SelectSeq(KeyOrder, LAMBDA k : HasKey(obj, k))
  IN Obj([i \in DOMAIN keys |-> <<keys[i], Get(obj, keys[i])>>])

canonicalizeJSON(obj) == JSONstringify(SortKeys(obj))

\* mutant: the digest taken over what goes on the wire
canonicalOf_wireSubstitutes(envelope) ==
  Obj(<< <<"cache_ttl", OrElse(Get(envelope, "cache_ttl"), Num(0))>>,
         <<"cursor", OrElse(Get(envelope, "cursor"), Str(<<>>))>>,
         <<"meta", OrElse(Get(envelope, "meta"), Str(<<>>))>>,
         <<"method", OrElse(Get(envelope, "method"), Str(<<>>))>>,
         <<"name", OrElse(Get(envelope, "name"), Str(<<>>))>>,
         <<"params", OrElse(Get(envelope, "params"), Str(<<>>))>>,
         <<"prev_digest", OrElse(Get(envelope, "prev_digest"),
                                 Str(<<"0x0000000000000000000000000000000000000000000000000000000000000000">>))>>,
         <<"result", OrElse(Get(envelope, "result"), Str(<<>>))>> >>)

\* the object computeDigest canonicalizes
canonicalOf(envelope) ==
  Obj(<< <<"cache_ttl", OrElse(Get(envelope, "cache_ttl"), Num(0))>>,
         <<"cursor", OrElse(Get(envelope, "cursor"), Null)>>,
         <<"meta", OrElse(Get(envelope, "meta"), Str(<<>>))>>,
         <<"method", OrElse(Get(envelope, "method"), Str(<<>>))>>,
         <<"name", OrElse(Get(envelope, "name"), Str(<<>>))>>,
         <<"params", OrElse(Get(envelope, "params"), Str(<<>>))>>,
         <<"prev_digest", OrElse(Get(envelope, "prev_digest"), Null)>>,
         <<"result", OrElse(Get(envelope, "result"), Str(<<>>))>> >>)

\* mutant: the cache_ttl fallback of createEnvelope used in the digest too
computeDigest_ttlDefault(envelope) ==
  LET c == canonicalOf(envelope)
  IN keccak256(canonicalizeJSON(
       Obj([i \in DOMAIN c.kv |->
             IF c.kv[i][1] = "cache_ttl"
             THEN <<"cache_ttl", OrElse(Get(envelope, "cache_ttl"), Num(30))>>
             ELSE c.kv[i]])))

\* mutant: the rest object `envelopeForDigest` stringified as it comes
computeDigest_insertionOrder(envelope) ==
  keccak256(JSONstringify(
    Obj(SelectSeq(envelope.kv, LAMBDA p : p[1] \notin {"digest", "signature"}))))

computeDigest(envelope) == keccak256(canonicalizeJSON(canonicalOf(envelope)))

\* typeof x === 'string' ? x : JSON.stringify(x)
asString(x) == IF IsString(x) THEN x ELSE Str(JSONstringify(x))

\* the envelope before digest and signature (lines 124-145)
envelopeFields(params) ==
  LET cursor == GetDefault(params, "cursor", Null)
      prevDigest == GetDefault(params, "prevDigest", Null)
      meta == GetDefault(params, "meta", Obj(<<>>))
      cacheTtl == GetDefault(params, "cacheTtl", Num(30))
  IN << <<"name", Get(params, "name")>>,
        <<"method", Get(params, "method")>>,
        <<"params", asString(Get(params, "params"))>>,
        <<"result", asString(Get(params, "result"))>>,
        <<"cursor", OrElse(cursor, Null)>>,
        <<"prev_digest", OrElse(prevDigest, Null)>>,
        <<"meta", asString(meta)>>,
        <<"cache_ttl", cacheTtl>> >>

\* mutant: the digest signed as it is, without the EIP-191 wrapping
createEnvelope_noPrefix(params, key) ==
  LET fields == envelopeFields(params)
      digest == computeDigest(Obj(fields))
  IN Obj(fields \o << <<"digest", digest>>, <<"signature", sign(key, digest)>> >>)

createEnvelope(params, key) ==
  LET fields == envelopeFields(params)
      digest == computeDigest(Obj(fields))
      withDigest == fields \o << <<"digest", digest>> >>
      messageHash == messageHashOf(EIP191Prefix, digest)
  IN Obj(withDigest \o << <<"signature", sign(key, messageHash)>> >>)

verifyEnvelope(envelope, expectedSigner) ==
  IF computeDigest(envelope) # Get(envelope, "digest") THEN FALSE
  ELSE LET messageHash == messageHashOf(EIP191Prefix, Get(envelope, "digest"))
           recoveredSigner == recoverAddress(messageHash, Get(envelope, "signature"))
       IN toLowerCase(recoveredSigner) = toLowerCase(expectedSigner)

---------------------------------------------------------------------------
(* The wire tuple and the on-chain verifier *)

ZeroHash == "0x0000000000000000000000000000000000000000000000000000000000000000"
Hash1 == "0x1111111111111111111111111111111111111111111111111111111111111111"

\* AbiCoder.encode(['tuple(string,string,string,string,string,bytes32,string,
\* uint256,bytes32,bytes)'], ...) of part_000 lines 110-124, as the tuple that
\* abi.decode gives back: strings and bytes32 values unchanged
abiEncodeEnvelope(envelope) ==
  << Get(envelope, "name"),
     Get(envelope, "method"),
     Get(envelope, "params"),
     Get(envelope, "result"),
     OrElse(Get(envelope, "cursor"), Str(<<>>)),
     OrElse(Get(envelope, "prev_digest"), Str(<<ZeroHash>>)),
     Get(envelope, "meta"),
     Get(envelope, "cache_ttl"),
     Get(envelope, "digest"),
     Get(envelope, "signature") >>

\* the envelope record read back from the decoded tuple, field by field
abiDecodeEnvelope(wire) ==
  Obj(<< <<"name", wire[1]>>, <<"method", wire[2]>>, <<"params", wire[3]>>,
         <<"result", wire[4]>>, <<"cursor", wire[5]>>, <<"prev_digest", wire[6]>>,
         <<"meta", wire[7]>>, <<"cache_ttl", wire[8]>>, <<"digest", wire[9]>>,
         <<"signature", wire[10]>> >>)

\* EnvelopeVerifier._quoteString
quoteString(str) == <<"\"">> \o str \o <<"\"">>

DigitChar == <<"0", "1", "2", "3", "4", "5", "6", "7", "8", "9">>

RECURSIVE uintDigits(_)
uintDigits(value) ==
  IF value = 0 THEN <<>> ELSE uintDigits(value \div 10) \o <<DigitChar[(value % 10) + 1]>>

\* EnvelopeVerifier._uintToString
uintToString(value) == IF value = 0 THEN <<"0">> ELSE uintDigits(value)

\* EnvelopeVerifier._bytes32ToHexString: "0x" and 64 lower-case digits, unquoted
bytes32ToHexString(value) == value

\* the bytes EnvelopeVerifier.computeDigest hashes, for the decoded struct
verifierCanonical(wire) ==
  <<"{", "\"", "cache_ttl", "\"", ":">> \o uintToString(wire[8].n)
  \o <<",", "\"", "cursor", "\"", ":">>
  \o (IF Len(wire[5].s) > 0 THEN quoteString(wire[5].s) ELSE <<"null">>)
  \o <<",", "\"", "meta", "\"", ":">> \o quoteString(wire[7].s)
  \o <<",", "\"", "method", "\"", ":">> \o quoteString(wire[2].s)
  \o <<",", "\"", "name", "\"", ":">> \o quoteString(wire[1].s)
  \o <<",", "\"", "params", "\"", ":">> \o quoteString(wire[3].s)
  \o <<",", "\"", "prev_digest", "\"", ":">>
  \o (IF wire[6].s = <<ZeroHash>> THEN <<"null">> ELSE bytes32ToHexString(wire[6].s))
  \o <<",", "\"", "result", "\"", ":">> \o quoteString(wire[4].s)
  \o <<"}">>

verifierComputeDigest(wire) == keccak256(verifierCanonical(wire))

---------------------------------------------------------------------------
(* Inputs of the envelope builder *)

MaxNonce == 1

NameText == <<"pricefeed.eth">>
MethodText == <<"pricefeed">>
ParamsObj == Obj(<< <<"pair", Str(<<"ethereum">>)>> >>)
ResultObj == Obj(<< <<"success", Bool(TRUE)>>, <<"type", Str(<<"pricefeed">>)>> >>)
\* a cursor holding a double quote and a backslash
CursorText == <<"p", "\"", "2", "\\">>

\* two insertion orders of the record handed to createEnvelope
InputOrders ==
  { <<"name", "method", "params", "result", "cursor", "prevDigest", "meta", "cacheTtl">>,
    <<"cacheTtl", "meta", "prevDigest", "cursor", "result", "params", "method", "name">> }

\* the record with the given members, inserted in the given order; a member
\* that is Undefined is absent
MakeRecord(members, order) ==
  LET present == SelectSeq(order, LAMBDA k : members[k] # Undefined)
  IN Obj([i \in DOMAIN present |-> <<present[i], members[present[i]]>>])

EnvelopeInputs ==
  { MakeRecord([name |-> Str(NameText), method |-> Str(MethodText),
                params |-> ParamsObj, result |-> ResultObj,
                cursor |-> c, prevDigest |-> d, meta |-> Undefined, cacheTtl |-> t], o) :
      c \in {Undefined, Str(<<>>), Str(CursorText)},
      d \in {Undefined, Str(<<Hash1>>)},
      t \in {Undefined, Num(0)},
      o \in InputOrders }

\* params objects a lookup can decode from its call data
LookupParams ==
  { Obj(<<>>),
    Obj(<< <<"cursor", Str(CursorText)>>, <<"prevDigest", Str(<<Hash1>>)>>,
           <<"cacheTtl", Num(60)>> >>),
    Obj(<< <<"pair", Str(<<"ethereum">>)>>, <<"cacheTtl", Num(0)>> >>) }

\* req.body.name after validation
LookupNames == {Undefined, Str(NameText)}

\* the argument of createEnvelope in POST /lookup (part_000 lines 93-107)
lookupEnvelopeParams(bodyName, functionName, params, result, t) ==
  Obj(<< <<"name", OrElse(bodyName, Str(<<"unknown.eth">>))>>,
         <<"method", functionName>>,
         <<"params", params>>,
         <<"result", result>>,
         <<"cursor", OrElse(Get(params, "cursor"), Null)>>,
         <<"prevDigest", OrElse(Get(params, "prevDigest"), Null)>>,
         <<"meta", Obj(<< <<"provider", Str(<<"ens-compute-gateway">>)>>,
                          <<"version", Str(<<"1.0.0">>)>>,
                          <<"nonce", Num(t)>>,
                          <<"timestamp", Num(t \div 1000)>> >>)>>,
         <<"cacheTtl", OrElse(Get(params, "cacheTtl"), Num(30))>> >>)

\* the members of an envelope in another insertion order
Reordered(envelope, how) ==
  IF how = "sorted" THEN SortKeys(envelope)
  ELSE Obj([i \in DOMAIN envelope.kv |-> envelope.kv[Len(envelope.kv) + 1 - i]])

---------------------------------------------------------------------------
(* Actions of the envelope builder and of its checkers *)

EnvInit ==
  /\ wallet \in Keys
  /\ cur = None
  /\ prev = None
  /\ probe = None
  /\ now = 0
  /\ store = [l \in {} |-> <<>>]
  /\ hist = [l \in {} |-> <<>>]
  /\ last = None
  /\ reqs = <<>>
  /\ running = 0

\* createEnvelope for every input of the model, evaluated once
createEnvelopeOf ==
  [k \in Keys |-> [p \in EnvelopeInputs |-> createEnvelope(p, k)]]

\* the optional members as the caller gave them, Undefined when left out
given(p) ==
  [cursor |-> Get(p, "cursor"), prevDigest |-> Get(p, "prevDigest"),
   cacheTtl |-> Get(p, "cacheTtl")]

\* a direct call of createEnvelope; cur holds the envelope built, its wire
\* tuple if it was encoded, and what the caller gave
CreateEnvelope(p) ==
  /\ cur' = [env |-> createEnvelopeOf[wallet][p], wire |-> None, arg |-> given(p)]
  /\ prev' = cur
  /\ probe' = None
  /\ UNCHANGED <<wallet, now, rlVars, gwVars>>

\* the envelope path of POST /lookup (part_000 lines 91-124): build and sign
lookupEnvelope(key, bodyName, params, t) ==
  createEnvelope(
    lookupEnvelopeParams(bodyName, Str(MethodText), params, ResultObj, t), key)

\* lookupEnvelope for every input of the model, evaluated once
lookupEnvelopeOf ==
  [k \in Keys |-> [n \in LookupNames |-> [p \in LookupParams |->
    [t \in 0..MaxNonce |-> lookupEnvelope(k, n, p, t)]]]]

\* the envelope path of POST /lookup: build, sign, ABI-encode
LookupBuild(bodyName, params) ==
  /\ LET envelope == lookupEnvelopeOf[wallet][bodyName][params][now]
     IN cur' = [env |-> envelope, wire |-> abiEncodeEnvelope(envelope), arg |-> given(params)]
  /\ prev' = cur
  /\ probe' = None
  /\ UNCHANGED <<wallet, now, rlVars, gwVars>>

VerifyEnvelope(a) ==
  /\ cur # None
  /\ probe' = [t |-> "verifyEnvelope", signer |-> a, ok |-> verifyEnvelope(cur.env, a)]
  /\ UNCHANGED <<wallet, cur, prev, now, rlVars, gwVars>>

\* computeDigest on the same envelope with its members in another order
RecomputeDigest(how) ==
  /\ cur # None
  /\ probe' = [t |-> "computeDigest", src |-> how,
               digest |-> computeDigest(Reordered(cur.env, how))]
  /\ UNCHANGED <<wallet, cur, prev, now, rlVars, gwVars>>

\* computeDigest on the envelope decoded from the wire tuple
RecomputeDecoded ==
  /\ cur # None
  /\ cur.wire # None
  /\ probe' = [t |-> "computeDigest", src |-> "decoded",
               digest |-> computeDigest(abiDecodeEnvelope(cur.wire))]
  /\ UNCHANGED <<wallet, cur, prev, now, rlVars, gwVars>>

\* EnvelopeVerifier.computeDigest on the decoded struct
VerifierDigest ==
  /\ cur # None
  /\ cur.wire # None
  /\ probe' = [t |-> "computeDigest", src |-> "verifier",
               digest |-> verifierComputeDigest(cur.wire)]
  /\ UNCHANGED <<wallet, cur, prev, now, rlVars, gwVars>>

EnvTick ==
  /\ now < MaxNonce
  /\ now' = now + 1
  /\ UNCHANGED <<wallet, cur, prev, probe, rlVars, gwVars>>

EnvNext ==
  \/ \E p \in EnvelopeInputs : CreateEnvelope(p)
  \/ \E n \in LookupNames, p \in LookupParams : LookupBuild(n, p)
  \/ \E a \in Addresses : VerifyEnvelope(a)
  \/ \E how \in {"sorted", "reversed"} : RecomputeDigest(how)
  \/ RecomputeDecoded
  \/ VerifierDigest
  \/ EnvTick

SpecEnv == EnvInit /\ [][EnvNext]_vars

---------------------------------------------------------------------------
(* Claims about the envelope *)

ContentKeys ==
  {"name", "method", "params", "result", "cursor", "prev_digest", "meta", "cache_ttl"}

\* the envelope without digest and signature
strip(envelope) == Obj(SelectSeq(envelope.kv, LAMBDA p : p[1] \in ContentKeys))

Content(envelope) == [k \in ContentKeys |-> Get(envelope, k)]

\* C1: the digest of every envelope createEnvelope returns is the keccak-256
\* of the canonical JSON of its own eight content fields, taken as they are,
\* and computeDigest on the returned envelope gives that digest again.
C1_DigestExact ==
  cur # None =>
    /\ Get(cur.env, "digest") = keccak256(canonicalizeJSON(strip(cur.env)))
    /\ computeDigest(cur.env) = Get(cur.env, "digest")

\* an envelope whose cache_ttl, cursor and prev_digest are all falsy
C1_Witness ==
  /\ cur # None
  /\ Get(cur.env, "cache_ttl") = Num(0)
  /\ Get(cur.env, "cursor") = Null
  /\ Get(cur.env, "prev_digest") = Null

\* C2: the signature of every envelope is the wallet's signature over the
\* EIP-191 wrapping of the digest; verifyEnvelope accepts the wallet's address
\* (in either letter case) and rejects every other address.
C2_SignatureValid ==
  /\ cur # None =>
       /\ Get(cur.env, "signature")
            = sign(wallet, messageHashOf(EIP191Prefix, Get(cur.env, "digest")))
       /\ \A a \in Addresses :
            verifyEnvelope(cur.env, a) <=> toLowerCase(a) = toLowerCase(Address(wallet))
  /\ probe.t = "verifyEnvelope" =>
       (probe.ok <=> toLowerCase(probe.signer) = toLowerCase(Address(wallet)))

\* verifyEnvelope has accepted the wallet's address written in lower case
C2_Witness ==
  /\ probe.t = "verifyEnvelope"
  /\ probe.ok
  /\ probe.signer # Address(wallet)
  /\ cur.wire # None

\* C3: for every envelope the gateway builds, the digest EnvelopeVerifier
\* computes from the ABI-decoded envelope (the keccak-256 of the preimage it
\* rebuilds) equals the gateway's digest.
C3_VerifierDigestMatches ==
  (cur # None /\ cur.wire # None) =>
    verifierComputeDigest(cur.wire) = Get(cur.env, "digest")

\* C4: two envelopes with the same content fields have the same digest, and
\* computeDigest gives the same digest whatever the insertion order of the
\* envelope's members.
C4_DigestPure ==
  /\ (cur # None /\ prev # None /\ Content(cur.env) = Content(prev.env)) =>
       Get(cur.env, "digest") = Get(prev.env, "digest")
  /\ (probe.t = "computeDigest" /\ probe.src \in {"sorted", "reversed"}) =>
       probe.digest = Get(cur.env, "digest")

\* two lookups with the same inputs in the same millisecond, and the digest
\* recomputed from the second with its members reversed
C4_Witness ==
  /\ cur # None /\ prev # None
  /\ cur.wire # None /\ prev.wire # None
  /\ Content(cur.env) = Content(prev.env)
  /\ probe.t = "computeDigest" /\ probe.src = "reversed"

\* C5: computeDigest on the content fields decoded from the wire tuple of a
\* lookup's envelope gives the envelope's digest.
C5_WireRoundTrip ==
  (probe.t = "computeDigest" /\ probe.src = "decoded") =>
    probe.digest = Get(cur.env, "digest")

\* the piece occurs in the text, token by token
Holds(text, piece) ==
  \E i \in 1..(Len(text) - Len(piece) + 1) : SubSeq(text, i, i + Len(piece) - 1) = piece

\* "key": followed by the tokens of a value
Member(key, value) == <<"\"", key, "\"", ":">> \o value

\* the text whose hash the digest of the envelope is, if it is the canonical
\* JSON of the content fields
Preimage(envelope) == canonicalizeJSON(strip(envelope))

\* C21: when cursor or prev_digest is absent at build time, the digest
\* preimage holds the literal null for it ("cursor":null, "prev_digest":null,
\* never "" or a zero hash), while the wire tuple carries the empty string for
\* the cursor and 32 zero bytes for prev_digest; what goes on the wire is not
\* what is hashed.
C21_NullFaithful ==
  cur # None =>
    LET pre == Preimage(cur.env)
    IN /\ Get(cur.env, "digest") = keccak256(pre)
       /\ cur.arg.cursor = Undefined =>
            /\ Holds(pre, Member("cursor", <<"null">>))
            /\ ~Holds(pre, Member("cursor", <<"\"">>))
            /\ cur.wire # None => cur.wire[5] = Str(<<>>)
       /\ cur.arg.prevDigest = Undefined =>
            /\ Holds(pre, Member("prev_digest", <<"null">>))
            /\ ~Holds(pre, Member("prev_digest", <<"\"">>))
            /\ cur.wire # None => cur.wire[6] = Str(<<ZeroHash>>)

\* a lookup without cursor and prev_digest has been built and encoded
C21_Witness ==
  /\ cur # None
  /\ cur.wire # None
  /\ cur.arg.cursor = Undefined /\ cur.arg.prevDigest = Undefined
  /\ cur.wire[5] = Str(<<>>) /\ cur.wire[6] = Str(<<ZeroHash>>)
  /\ Holds(Preimage(cur.env), Member("cursor", <<"null">>))

\* C22: the built envelope's cache_ttl is 30 when the caller supplied no
\* cache TTL; whenever one was supplied (0 included), the envelope's
\* cache_ttl, the value hashed into the digest and the value on the wire all
\* equal the supplied value.
C22_CacheTtlAsSupplied ==
  cur # None =>
    LET pre == Preimage(cur.env)
        ttl == cur.arg.cacheTtl
    IN /\ Get(cur.env, "digest") = keccak256(pre)
       /\ ttl = Undefined => Get(cur.env, "cache_ttl") = Num(30)
       /\ ttl # Undefined =>
            /\ Get(cur.env, "cache_ttl") = ttl
            /\ Holds(pre, Member("cache_ttl", JSONstringify(ttl)) \o <<",">>)
            /\ cur.wire # None => cur.wire[8] = ttl

\* the envelope was built by the lookup path
LookupBuilt(c) == c # None /\ c.wire # None

\* the meta text of the envelope has the member with some value
HasMeta(envelope, key) == Holds(Get(envelope, "meta").s, <<"\"", key, "\"", ":">>)

\* the meta text of the envelope has this nonce
HasNonce(envelope, n) ==
  Holds(Get(envelope, "meta").s, Member("nonce", <<ToString(n)>>) \o <<",">>)

\* C23: every envelope built by the lookup pipeline carries meta with
\* provider, version, nonce and timestamp, and the nonce is unique per build:
\* two builds, also two within the same millisecond, get different nonces.
C23_NonceUnique ==
  /\ LookupBuilt(cur) =>
       \A key \in {"provider", "version", "nonce", "timestamp"} : HasMeta(cur.env, key)
  /\ (LookupBuilt(cur) /\ LookupBuilt(prev)) =>
       ~\E n \in 0..MaxNonce : HasNonce(cur.env, n) /\ HasNonce(prev.env, n)

---------------------------------------------------------------------------
(* Sliding-window rate limiter: src/gateway/middleware/rateLimit.js          *)
(* RateLimiter.reset is called nowhere in the gateway and is left out.       *)

\* the window and the limits, scaled down from 60000 ms, 100 and 1000
WindowMs == 2
IpMaxRequests == 2
ApiKeyMaxRequests == 3
MaxTime == 3

Limiters == {"ip", "apiKey"}
windowMs(l) == WindowMs
maxRequests(l) == IF l = "ip" THEN IpMaxRequests ELSE ApiKeyMaxRequests

IpAddresses == {"ip1", "ip2"}

\* mutant: the front dropped while `front <= windowStart`
evict_inclusive(requests, windowStart) ==
  LET old == {i \in DOMAIN requests : requests[i] <= windowStart}
  IN SubSeq(requests, Cardinality(old) + 1, Len(requests))

\* while (requests.length > 0 && requests[0] < windowStart) requests.shift()
RECURSIVE evict(_, _)
evict(requests, windowStart) ==
  IF Len(requests) > 0 /\ requests[1] < windowStart
  THEN evict(Tail(requests), windowStart)
  ELSE requests

\* this.store.get(key), on a Map m given as a function from its keys
bucketOf(m, key) == IF key \in DOMAIN m THEN m[key] ELSE <<>>

\* this.store.set(key, requests)
Put(m, key, requests) ==
  [k \in (DOMAIN m) \cup {key} |-> IF k = key THEN requests ELSE m[k]]

\* mutant: `>` for `>=` in the limit test
check_offByOne(m, key, t, window, max) ==
  LET requests == evict(bucketOf(m, key), t - window)
  IN IF Len(requests) > max
     THEN [allowed |-> FALSE, store |-> Put(m, key, requests)]
     ELSE [allowed |-> TRUE, store |-> Put(m, key, Append(requests, t))]

\* mutant: the request recorded before the limit test
check_recordsDenied(m, key, t, window, max) ==
  LET requests == evict(bucketOf(m, key), t - window)
  IN IF Len(requests) >= max
     THEN [allowed |-> FALSE, store |-> Put(m, key, Append(requests, t))]
     ELSE [allowed |-> TRUE, store |-> Put(m, key, Append(requests, t))]

\* mutant: the new timestamp put at the front (unshift for push)
check_prepends(m, key, t, window, max) ==
  LET requests == evict(bucketOf(m, key), t - window)
  IN IF Len(requests) >= max
     THEN [allowed |-> FALSE, store |-> Put(m, key, requests)]
     ELSE [allowed |-> TRUE, store |-> Put(m, key, <<t>> \o requests)]

\* RateLimiter.check(key) at Date.now() = t: what it returns and the Map after
check(m, key, t, window, max) ==
  LET requests == evict(bucketOf(m, key), t - window)
  IN IF Len(requests) >= max
     THEN [allowed |-> FALSE, store |-> Put(m, key, requests)]
     ELSE [allowed |-> TRUE, store |-> Put(m, key, Append(requests, t))]

\* RateLimiter.remaining(key)
remaining(m, key, t, window, max) ==
  IF key \notin DOMAIN m THEN [value |-> max, store |-> m]
  ELSE LET requests == evict(m[key], t - window)
       IN [value |-> IF max - Len(requests) > 0 THEN max - Len(requests) ELSE 0,
           store |-> Put(m, key, requests)]

\* mutant: the sweep deletes every entry
cleanup_dropsAll(m, t, window) == [k \in {} |-> <<>>]

\* mutant: the old timestamps dropped, the emptied entries kept
cleanup_keepsEmpty(m, t, window) == [k \in DOMAIN m |-> evict(m[k], t - window)]

\* RateLimiter.cleanup()
cleanup(m, t, window) ==
  LET kept == {k \in DOMAIN m : Len(evict(m[k], t - window)) # 0}
  IN [k \in kept |-> evict(m[k], t - window)]

\* mutant: one limiter for every request
limiterOf_shared(apiKey) == "ip"

\* rateLimitMiddleware: the limiter and the key of a request, from its
\* x-api-key header (Undefined when absent) and its address
limiterOf(apiKey) == IF Truthy(apiKey) THEN "apiKey" ELSE "ip"
identifierOf(apiKey, ip) == IF Truthy(apiKey) THEN Flat(apiKey.s) ELSE ip

RetryAfter == 60

\* the x-api-key header of a request without a key: absent or empty
NoApiKey == {Undefined, Str(<<>>)}

\* rateLimitMiddleware: the 429 response, or the headers set before next()
rateLimitMiddleware(st, apiKey, ip, t) ==
  LET l == limiterOf(apiKey)
      id == identifierOf(apiKey, ip)
      c == check(st[l], id, t, windowMs(l), maxRequests(l))
      r == remaining(c.store, id, t, windowMs(l), maxRequests(l))
  IN IF ~c.allowed
     THEN [allowed |-> FALSE, limiter |-> l, key |-> id,
           store |-> [st EXCEPT ![l] = c.store],
           status |-> 429,
           body |-> [error |-> "Rate limit exceeded", retryAfter |-> RetryAfter,
                     remaining |-> 0]]
     ELSE [allowed |-> TRUE, limiter |-> l, key |-> id,
           store |-> [st EXCEPT ![l] = r.store],
           status |-> 0,
           body |-> [limit |-> maxRequests(l), remaining |-> r.value,
                     reset |-> t + windowMs(l)]]

EmptyMap == [k \in {} |-> <<>>]

\* the history with one more admission
Admitted(h, l, key, t) ==
  [h EXCEPT ![l] = Put(h[l], key, Append(bucketOf(h[l], key), t))]

RLInit ==
  /\ wallet = "key1"
  /\ cur = None
  /\ prev = None
  /\ probe = None
  /\ now = 0
  /\ store = [l \in Limiters |-> EmptyMap]
  /\ hist = [l \in Limiters |-> EmptyMap]
  /\ last = None
  /\ reqs = <<>>
  /\ running = 0

\* limiter.check(key)
Check(l, key) ==
  /\ LET c == check(store[l], key, now, windowMs(l), maxRequests(l))
     IN /\ store' = [store EXCEPT ![l] = c.store]
        /\ hist' = IF c.allowed THEN Admitted(hist, l, key, now) ELSE hist
        /\ last' = [t |-> "check", limiter |-> l, key |-> key, at |-> now,
                    allowed |-> c.allowed]
  /\ UNCHANGED <<envVars, gwVars, now>>

\* limiter.remaining(key)
Remaining(l, key) ==
  /\ LET r == remaining(store[l], key, now, windowMs(l), maxRequests(l))
     IN /\ store' = [store EXCEPT ![l] = r.store]
        /\ last' = [t |-> "remaining", limiter |-> l, key |-> key,
                    value |-> r.value]
  /\ UNCHANGED <<envVars, gwVars, now, hist>>

\* the setInterval callback: cleanup of both limiters
Cleanup ==
  /\ running = 0
  /\ store' = [l \in Limiters |-> cleanup(store[l], now, windowMs(l))]
  /\ UNCHANGED <<envVars, gwVars, now, hist, last>>

\* a request through rateLimitMiddleware
Middleware(apiKey, ip) ==
  /\ LET m == rateLimitMiddleware(store, apiKey, ip, now)
     IN /\ store' = m.store
        /\ hist' = IF m.allowed THEN Admitted(hist, m.limiter, m.key, now) ELSE hist
        /\ last' = [t |-> "middleware", limiter |-> m.limiter, key |-> m.key,
                    at |-> now, allowed |-> m.allowed, status |-> m.status,
                    body |-> m.body]
  /\ UNCHANGED <<envVars, gwVars, now>>

Tick ==
  /\ running = 0
  /\ now < MaxTime
  /\ now' = now + 1
  /\ UNCHANGED <<envVars, rlVars, gwVars>>

RLNext ==
  \/ \E key \in IpAddresses : Check("ip", key)
  \/ \E key \in IpAddresses : Remaining("ip", key)
  \/ Cleanup
  \/ \E apiKey \in NoApiKey, ip \in IpAddresses : Middleware(apiKey, ip)
  \/ Tick

SpecRL == RLInit /\ [][RLNext]_vars

\* how many of the times in h lie in lo..hi
CountIn(h, lo, hi) == Cardinality({i \in DOMAIN h : lo <= h[i] /\ h[i] <= hi})


\* C6: sliding-log exactness. For every limiter, every key and every time
\* interval [t, t + W], at most N calls check(k) returned true at a time
\* inside the interval, whatever check, remaining and cleanup calls were made.
C6_SlidingLogExact ==
  \A l \in DOMAIN hist : \A k \in DOMAIN hist[l] : \A t \in 0..MaxTime :
    CountIn(hist[l][k], t, t + windowMs(l)) <= maxRequests(l)

\* a key that was limited and is admitted again once the window has slid
C6_Witness ==
  /\ last.t = "check"
  /\ last.allowed
  /\ Len(bucketOf(hist[last.limiter], last.key)) > maxRequests(last.limiter)

\* C7: the admission decision is exact in both directions. check(k) at time
\* now admits iff fewer than N requests admitted before it for k have a
\* timestamp >= now - W; a request denied by the middleware gets status 429
\* and the body {error: 'Rate limit exceeded', retryAfter: 60, remaining: 0}.
C7_AdmissionExact ==
  last.t \in {"check", "middleware"} =>
    LET h == bucketOf(hist[last.limiter], last.key)
        before == IF last.allowed THEN SubSeq(h, 1, Len(h) - 1) ELSE h
        recent == CountIn(before, last.at - windowMs(last.limiter), last.at)
    IN /\ last.allowed <=> recent < maxRequests(last.limiter)
       /\ (last.t = "middleware" /\ ~last.allowed) =>
            /\ last.status = 429
            /\ last.body = [error |-> "Rate limit exceeded", retryAfter |-> 60,
                            remaining |-> 0]

\* N requests of a fresh key admitted inside one window, the next one denied
C7_Witness ==
  /\ last.t = "middleware"
  /\ ~last.allowed
  /\ LET h == bucketOf(hist[last.limiter], last.key)
     IN /\ Len(h) = maxRequests(last.limiter)
        /\ \A i \in DOMAIN h : h[i] >= last.at - windowMs(last.limiter)

\* a step that is a denied check(key) of limiter l
DeniedCheck(l, key) ==
  /\ \/ Check(l, key)
     \/ \E apiKey \in NoApiKey, ip \in IpAddresses :
          /\ limiterOf(apiKey) = l
          /\ identifierOf(apiKey, ip) = key
          /\ Middleware(apiKey, ip)
  /\ ~last'.allowed

\* s is what is left of r after dropping some of its front
IsSuffix(s, r) ==
  /\ Len(s) <= Len(r)
  /\ s = SubSeq(r, Len(r) - Len(s) + 1, Len(r))

\* C8: a denied check(k) appends no timestamp to k's bucket (the bucket after
\* is what was left of the bucket before), leaves the buckets of every other
\* key of every limiter as they were, and admits nothing.
C8_DeniedFrame ==
  [][\A l \in Limiters : \A key \in IpAddresses :
       DeniedCheck(l, key) =>
         /\ IsSuffix(bucketOf(store'[l], key), bucketOf(store[l], key))
         /\ \A k \in DOMAIN store[l] \ {key} :
              k \in DOMAIN store'[l] /\ store'[l][k] = store[l][k]
         /\ DOMAIN store'[l] \subseteq DOMAIN store[l] \cup {key}
         /\ \A m \in Limiters \ {l} : store'[m] = store[m]
         /\ hist' = hist]_vars

\* a key denied at its limit while another key of the same limiter has a log
C8_Witness ==
  /\ last.t = "check"
  /\ ~last.allowed
  /\ Len(bucketOf(store[last.limiter], last.key)) = maxRequests(last.limiter)
  /\ \E k \in DOMAIN store[last.limiter] \ {last.key} :
       Len(store[last.limiter][k]) > 0

\* a step that is a check(key) of limiter l, called directly or by the
\* middleware
CheckOf(l, key) ==
  \/ Check(l, key)
  \/ \E apiKey \in NoApiKey, ip \in IpAddresses :
       /\ limiterOf(apiKey) = l
       /\ identifierOf(apiKey, ip) = key
       /\ Middleware(apiKey, ip)

\* C29: immediately after a sweep (cleanup) at time now, no key in the limiter
\* store maps to an empty bucket and no stored timestamp is older than
\* now - window; a key's bucket comes into existence only through a check on
\* that key (remaining and cleanup create none).
C29_SweepLeavesLiveBuckets ==
  [][/\ Cleanup =>
          \A l \in Limiters : \A k \in DOMAIN store'[l] :
            /\ Len(store'[l][k]) > 0
            /\ \A i \in DOMAIN store'[l][k] : store'[l][k][i] >= now - windowMs(l)
     /\ \A l \in Limiters : \A k \in DOMAIN store'[l] \ DOMAIN store[l] :
          CheckOf(l, k)]_vars

\* a sweep has deleted the emptied bucket of a key that had been admitted,
\* and has kept the bucket of another key
C29_Witness ==
  /\ \E k \in DOMAIN hist["ip"] : k \notin DOMAIN store["ip"]
  /\ \E k \in DOMAIN store["ip"] :
       /\ Len(store["ip"][k]) > 0
       /\ \A i \in DOMAIN store["ip"][k] : store["ip"][k][i] >= now - windowMs("ip")

\* the timestamps of a bucket that are not older than windowStart
InWindow(requests, windowStart) == SelectSeq(requests, LAMBDA x : x >= windowStart)

\* C33: with a clock that never goes backward, in every reachable state every
\* stored bucket holds at most maxRequests timestamps, in non-decreasing
\* order, so evicting only from the front removes exactly the entries older
\* than the window.
C33_BucketsBoundedSorted ==
  \A l \in Limiters : \A k \in DOMAIN store[l] :
    LET requests == store[l][k]
    IN /\ Len(requests) <= maxRequests(l)
       /\ \A i \in 1..(Len(requests) - 1) : requests[i] <= requests[i + 1]
       /\ \A t \in 0..MaxTime :
            evict(requests, t - windowMs(l)) = InWindow(requests, t - windowMs(l))

\* a full bucket with timestamps of two different times, the older of which
\* is now outside the window
C33_Witness ==
  \E k \in DOMAIN store["ip"] :
    LET requests == store["ip"][k]
    IN /\ Len(requests) = maxRequests("ip")
       /\ requests[1] < requests[Len(requests)]
       /\ requests[1] < now - windowMs("ip")

---------------------------------------------------------------------------
(* A limiter with sweeps and reads beside one that gets the same check calls *)
(* and nothing else: store["ip"] is the first, prev the Map of the second.   *)
(* probe[key] is the times at which check(key) was denied since key was last *)
(* admitted.                                                                 *)

RefInit ==
  /\ wallet = "key1"
  /\ cur = None
  /\ prev = EmptyMap
  /\ probe = [key \in IpAddresses |-> {}]
  /\ now = 0
  /\ store = [l \in Limiters |-> EmptyMap]
  /\ hist = [l \in Limiters |-> EmptyMap]
  /\ last = None
  /\ reqs = <<>>
  /\ running = 0

\* check(key) on both limiters
BothCheck(key) ==
  /\ LET c == check(store["ip"], key, now, windowMs("ip"), maxRequests("ip"))
         ref == check(prev, key, now, windowMs("ip"), maxRequests("ip"))
     IN /\ store' = [store EXCEPT !["ip"] = c.store]
        /\ prev' = ref.store
        /\ last' = [t |-> "check", key |-> key, allowed |-> c.allowed,
                    refAllowed |-> ref.allowed, denied |-> probe[key]]
        /\ probe' = [probe EXCEPT ![key] = IF c.allowed THEN {} ELSE @ \cup {now}]
  /\ UNCHANGED <<wallet, cur, now, hist, gwVars>>

\* remaining(key) on the first limiter
ReadFirst(key) ==
  /\ LET r == remaining(store["ip"], key, now, windowMs("ip"), maxRequests("ip"))
     IN /\ store' = [store EXCEPT !["ip"] = r.store]
        /\ last' = [t |-> "remaining", key |-> key, value |-> r.value]
  /\ UNCHANGED <<envVars, now, hist, gwVars>>

\* cleanup() on the first limiter
SweepFirst ==
  /\ store' = [store EXCEPT !["ip"] = cleanup(store["ip"], now, windowMs("ip"))]
  /\ last' = [t |-> "cleanup"]
  /\ UNCHANGED <<envVars, now, hist, gwVars>>

RefNext ==
  \/ \E key \in IpAddresses : BothCheck(key)
  \/ \E key \in IpAddresses : ReadFirst(key)
  \/ SweepFirst
  \/ Tick

SpecRef == RefInit /\ [][RefNext]_vars

\* C34: sweeps and reads are transparent to admission. Inserting any number
\* of cleanup() sweeps and remaining(key) reads at any points of a sequence of
\* check() calls changes the admit/deny result of no check() in the sequence,
\* and remaining() on a key that was never checked creates no bucket.
C34_SweepsAndReadsTransparent ==
  [][/\ \A key \in IpAddresses :
          BothCheck(key) => last'.allowed = last'.refAllowed
     /\ \A key \in IpAddresses :
          (ReadFirst(key) /\ key \notin DOMAIN prev) =>
             key \notin DOMAIN store'["ip"]]_vars

\* a check is denied on both limiters although a sweep has deleted a key from
\* the first that the second still holds
C34_Witness ==
  /\ last.t = "check"
  /\ ~last.allowed
  /\ ~last.refAllowed
  /\ \E k \in DOMAIN prev : k \notin DOMAIN store["ip"]

\* how many timestamps of the bucket are t
CountAt(requests, t) == Cardinality({i \in DOMAIN requests : requests[i] = t})

\* C35 as stated: if check(k) is denied at time t and no check for k is
\* admitted afterwards, then a check(k) made at time t + window (the
\* advertised retryAfter later) is admitted.
C35_RetryAtWindowAdmitted ==
  [][\A key \in IpAddresses : \A t \in probe[key] :
       (BothCheck(key) /\ now = t + windowMs("ip")) => last'.allowed]_vars

\* What the strict comparison of the eviction gives instead: a check(k) made
\* later than t + window is admitted, and one made at t + window itself is
\* admitted iff fewer than maxRequests of the requests in k's bucket were
\* admitted at time t.
RetryLaterThanWindowAdmitted ==
  [][\A key \in IpAddresses : \A t \in probe[key] :
       BothCheck(key) =>
         /\ now > t + windowMs("ip") => last'.allowed
         /\ now = t + windowMs("ip") =>
              (last'.allowed <=>
                 CountAt(bucketOf(store["ip"], key), t) < maxRequests("ip"))]_vars

\* a key denied at time t is admitted at t + window: its bucket held a
\* request of an earlier time
RetryAtWindowCanBeAdmitted ==
  /\ last.t = "check"
  /\ last.allowed
  /\ (now - windowMs("ip")) \in last.denied

---------------------------------------------------------------------------
(* Request validation: src/gateway/middleware/validation.js                  *)

\* the NUL character, as a one-character token that stands for nothing else
NUL == "^"
Whitespace == {" ", "\t", "\n"}

\* c.repeat(n): a string of n characters c
RECURSIVE Repeat(_, _)
Repeat(c, n) ==
  IF n = 0 THEN ""
  ELSE IF n % 2 = 0 THEN LET half == Repeat(c, n \div 2) IN half \o half
  ELSE c \o Repeat(c, n - 1)

\* runs of characters of [A-Za-z0-9-] that the texts of the model are made of
LabelRuns == {"alice", "Bob", "a-b", "eth", "ETH", Repeat("a", 251), Repeat("a", 255)}

Hex64 == "1111111111111111111111111111111111111111111111111111111111111111"

\* input.replace(/\0/g, ''): every NUL removed
removeNul(text) == SelectSeq(text, LAMBDA c : c # NUL)

\* String.prototype.trim
RECURSIVE trimStart(_)
trimStart(text) ==
  IF text # <<>> /\ Head(text) \in Whitespace THEN trimStart(Tail(text)) ELSE text

RECURSIVE trimEnd(_)
trimEnd(text) ==
  IF text # <<>> /\ text[Len(text)] \in Whitespace
  THEN trimEnd(SubSeq(text, 1, Len(text) - 1))
  ELSE text

trim(text) == trimEnd(trimStart(text))

\* text.substring(0, n), for a cut that falls between two tokens
RECURSIVE substring(_, _)
substring(text, n) ==
  IF Len(Flat(text)) <= n THEN text
  ELSE substring(SubSeq(text, 1, Len(text) - 1), n)

\* sanitizeString(input, maxLength), as text
sanitizeString(input, maxLength) ==
  IF ~IsString(input) THEN <<>>
  ELSE substring(trim(removeNul(input.s)), maxLength)

\* /^[a-z0-9-]+\.eth$/i
ensRegex(text) ==
  /\ Len(text) >= 3
  /\ text[Len(text)] \in {"eth", "ETH"}
  /\ text[Len(text) - 1] = "."
  /\ \A i \in 1..(Len(text) - 2) : text[i] \in LabelRuns

MaxNameLength == 255
MaxParamLength == 1000
MaxDataSize == 100000

isValidENSName(name) ==
  IF ~Truthy(name) \/ ~IsString(name) THEN FALSE
  ELSE ensRegex(name.s) /\ Len(Flat(name.s)) <= MaxNameLength

\* ethers.namehash(name) throws: a label is empty or holds a character that
\* ENS normalization rejects
namehashThrows(text) ==
  \/ text = <<>>
  \/ text[1] = "." \/ text[Len(text)] = "."
  \/ \E i \in 1..(Len(text) - 1) : text[i] = "." /\ text[i + 1] = "."
  \/ \E i \in DOMAIN text : text[i] \in Whitespace \cup {NUL}

\* node.startsWith('0x'): the prefix, where a text has it, is its first token
startsWith0x(text) == text # <<>> /\ text[1] = "0x"

isValidNode(node) ==
  IF ~Truthy(node) THEN FALSE
  ELSE IF IsString(node)
       THEN IF startsWith0x(node.s) THEN Len(Flat(node.s)) = 66
            ELSE ~namehashThrows(node.s)
       ELSE FALSE

\* obj[key] = value: the member keeps its place, a new one goes last
Set(obj, key, value) ==
  IF \E i \in DOMAIN obj.kv : obj.kv[i][1] = key
  THEN Obj([i \in DOMAIN obj.kv |->
              IF obj.kv[i][1] = key THEN <<key, value>> ELSE obj.kv[i]])
  ELSE Obj(Append(obj.kv, <<key, value>>))

\* the loop over req.body.params: every string member sanitized
sanitizeParams(params) ==
  Obj([i \in DOMAIN params.kv |->
         IF IsString(params.kv[i][2])
         THEN <<params.kv[i][1], Str(sanitizeString(params.kv[i][2], MaxParamLength))>>
         ELSE params.kv[i]])

\* validateRequest: the errors collected and req.body as it leaves it
validateRequest(body) ==
  LET node == Get(body, "node")
      name == Get(body, "name")
      data == Get(body, "data")
      params == Get(body, "params")
      clean == Str(sanitizeString(name, MaxNameLength))
      e1 == IF Truthy(node) /\ ~isValidNode(node)
            THEN <<"Invalid node parameter">> ELSE <<>>
      e2 == IF Truthy(name) /\ ~isValidENSName(clean)
            THEN <<"Invalid ENS name">> ELSE <<>>
      e3 == IF Truthy(data) /\ Len(Flat(JSONstringify(data))) > MaxDataSize
            THEN <<"Request data too large (max 100KB)">> ELSE <<>>
      e4 == IF Truthy(params) /\ params.t # "object"
            THEN <<"Params must be an object">> ELSE <<>>
      b1 == IF Truthy(name) THEN Set(body, "name", clean) ELSE body
      b2 == IF Truthy(params) /\ params.t = "object"
            THEN Set(b1, "params", sanitizeParams(params)) ELSE b1
  IN [errors |-> e1 \o e2 \o e3 \o e4, body |-> b2]

\* Buffer.byteLength(text) and text.length: the texts of the model are ASCII
byteLength(text) == Len(Flat(text))

\* express.json({ limit: '100kb' }): bytes.parse('100kb'), in bytes
BodyLimit == 102400

\* express.json: the body is parsed when its bytes are within the limit,
\* otherwise the parser raises 413 and no middleware after it runs
jsonParserAccepts(body) == byteLength(JSONstringify(body)) <= BodyLimit

\* the size of the data member as it is serialized, 0 when there is none
serializedSize(data) ==
  IF data = Undefined THEN 0 ELSE byteLength(JSONstringify(data))

\* mutant: next() called whatever the errors
validationPasses_noReturn(errors) == TRUE

\* validateRequest lines 107-114: next() is reached only without errors
validationPasses(errors) == ~(Len(errors) > 0)

---------------------------------------------------------------------------
(* Call data decoding and dispatch: part_000, src/gateway/compute/index.js   *)

Thrown == [t |-> "thrown"]

\* the values JSON.parse can give back for the call data of the model
CallData == {
  Obj(<<<<"function", Str(<<"pricefeed">>)>>, <<"params", ParamsObj>>>>),
  Obj(<<<<"function", Str(<<"nope">>)>>>>),
  Obj(<<<<"function", Str(<<"daovotes">>)>>>>),
  Obj(<<<<"params", ParamsObj>>>>),
  ParamsObj,
  Obj(<< <<"cacheTtl", Str(<<"abc">>)>> >>),
  Obj(<< <<"cursor", Str(CursorText)>>, <<"cacheTtl", Num(60)>> >>),
  Obj(<<>>) }

\* JSON.parse(text): the value whose JSON text this is; any other text throws
JSONparse(text) ==
  IF \E v \in CallData : Flat(JSONstringify(v)) = Flat(text)
  THEN CHOOSE v \in CallData : Flat(JSONstringify(v)) = Flat(text)
  ELSE Thrown

\* AbiCoder.encode(['string', 'bytes'], [m, b]) as hex text: each field
\* framed, in order
abiEncodeCallData(m, b) == <<"0x", "[string:">> \o m \o <<"][bytes:">> \o b \o <<"]">>

\* AbiCoder.decode(['string', 'bytes'], data); text without the framing throws
abiDecodeCallData(text) ==
  LET cuts == {i \in DOMAIN text : text[i] = "][bytes:"}
  IN IF /\ Len(text) >= 4
        /\ text[1] = "0x" /\ text[2] = "[string:" /\ text[Len(text)] = "]"
        /\ Cardinality(cuts) = 1
     THEN LET j == CHOOSE i \in cuts : TRUE
          IN <<SubSeq(text, 3, j - 1), SubSeq(text, j + 1, Len(text) - 1)>>
     ELSE Thrown

DefaultFunction == <<"pricefeed">>

\* what the decoder ends with: the function name, the params, whether the
\* decoding branch was entered (tried) and which console.warn was made
Decoded(fn, params, tried, warned) ==
  [fn |-> fn, params |-> params, tried |-> tried, warned |-> warned]

\* lines 47-48: the values the handler starts from
Defaults(tried, warned) == Decoded(DefaultFunction, Obj(<<>>), tried, warned)

\* mutant: a params text that does not parse handled by the outer catch
decodeAbi_outerCatch(text) ==
  LET decoded == abiDecodeCallData(text)
  IN IF decoded = Thrown \/ JSONparse(decoded[2]) = Thrown THEN Defaults(TRUE, "data")
     ELSE Decoded(IF decoded[1] = <<>> THEN DefaultFunction ELSE decoded[1],
                  JSONparse(decoded[2]), TRUE, "none")

\* mutant: the decoded name dropped
decodeAbi_defaultName(text) ==
  LET decoded == abiDecodeCallData(text)
  IN IF decoded = Thrown THEN Defaults(TRUE, "data")
     ELSE Decoded(DefaultFunction,
                  IF JSONparse(decoded[2]) = Thrown THEN Obj(<<>>) ELSE JSONparse(decoded[2]),
                  TRUE, IF JSONparse(decoded[2]) = Thrown THEN "params" ELSE "none")

\* the string branch for 0x text, part_000 lines 54-68: the name is assigned
\* before the params are parsed inside their own try block (the hex text of
\* the bytes is never of length 0, so they are always parsed)
decodeAbi(text) ==
  LET decoded == abiDecodeCallData(text)
  IN IF decoded = Thrown THEN Defaults(TRUE, "data")
     ELSE LET parsed == JSONparse(decoded[2])
          IN Decoded(IF decoded[1] = <<>> THEN DefaultFunction ELSE decoded[1],
                     IF parsed = Thrown THEN Obj(<<>>) ELSE parsed,
                     TRUE,
                     IF parsed = Thrown THEN "params" ELSE "none")

\* mutant: the members read without their defaults
decodeObject_noDefaults(parsed) ==
  Decoded(IF Get(parsed, "function") = Undefined THEN <<>> ELSE Get(parsed, "function").s,
          Get(parsed, "params"), TRUE, "none")

\* parsed.function || functionName and parsed.params || {}
decodeObject(parsed) ==
  Decoded(OrElse(Get(parsed, "function"), Str(DefaultFunction)).s,
          OrElse(Get(parsed, "params"), Obj(<<>>)), TRUE, "none")

\* line 50: there is call data to decode
nonEmpty(data) ==
  /\ Truthy(data)
  /\ IF IsString(data) THEN Len(data.s) > 0
     ELSE data.t = "object" /\ Len(data.kv) > 0

\* part_000 lines 47-83: the function name and the params of a lookup
decodeCallData(data) ==
  IF ~nonEmpty(data) THEN Defaults(FALSE, "none")
  ELSE IF IsString(data) /\ startsWith0x(data.s) THEN decodeAbi(data.s)
  ELSE IF IsString(data)
       THEN IF JSONparse(data.s) = Thrown
            THEN Defaults(TRUE, "data")
            ELSE decodeObject(JSONparse(data.s))
  ELSE decodeObject(data)

\* Object.keys(computeFunctions)
listFunctions == <<"pricefeed", "daovotes", "nftfloor">>

\* the name is one of the registry's own keys
isRegistered(fn) == \E i \in DOMAIN listFunctions : Flat(fn) = listFunctions[i]

\* what the function registered under a name returns
resultOf(name) == Obj(<< <<"success", Bool(TRUE)>>, <<"type", Str(<<name>>)>> >>)

\* computeFunctions[functionName] on the object literal: an own key gives the
\* registered function; a name that every object inherits gives the member of
\* Object.prototype (Object itself, a method, or the prototype object, which
\* is not callable); any other name gives undefined
computeFn(functionName) ==
  IF ~IsString(functionName) THEN Undefined
  ELSE IF isRegistered(functionName.s) THEN Str(<<Flat(functionName.s)>>)
  ELSE IF Flat(functionName.s) = "constructor" THEN Str(<<"Object">>)
  ELSE IF Flat(functionName.s) = "toString" THEN Str(<<"Object.prototype.toString">>)
  ELSE IF Flat(functionName.s) = "__proto__" THEN Obj(<<>>)
  ELSE Undefined

\* executeCompute(functionName, params): what it throws or returns and the
\* function it invoked; settles says whether a registered function returns
executeCompute(functionName, params, settles) ==
  LET fn == computeFn(functionName)
  IN IF ~Truthy(fn)
     THEN [thrown |-> TRUE, invoked |-> "",
           value |-> Str(<<"Unknown compute function: ">>
                         \o (IF IsString(functionName) THEN functionName.s ELSE <<"?">>))]
     ELSE IF ~IsString(fn)
     THEN [thrown |-> TRUE, invoked |-> "", value |-> Str(<<"computeFn is not a function">>)]
     ELSE IF fn.s = <<"Object">>
     THEN [thrown |-> FALSE, invoked |-> "Object", value |-> params]
     ELSE IF fn.s = <<"Object.prototype.toString">>
     THEN [thrown |-> FALSE, invoked |-> "Object.prototype.toString",
           value |-> Str(<<"[object Undefined]">>)]
     ELSE IF settles
     THEN [thrown |-> FALSE, invoked |-> Flat(fn.s), value |-> resultOf(Flat(fn.s))]
     ELSE [thrown |-> TRUE, invoked |-> Flat(fn.s), value |-> Str(<<"compute failed">>)]

---------------------------------------------------------------------------
(* The decoder and the registry on their own: one call on one input         *)

DispatchNames ==
  {"pricefeed", "daovotes", "nftfloor", "nope", "constructor", "toString", "__proto__"}

\* the calls of executeCompute
DispatchInputs ==
  { [op |-> "executeCompute", name |-> Str(<<n>>), params |-> p, settles |-> b] :
      n \in DispatchNames, p \in {Obj(<<>>), ParamsObj}, b \in BOOLEAN }

\* values of req.body.data handed to the decoder
DecodeData == {
  Undefined, Str(<<>>), Obj(<<>>),
  Obj(<<<<"function", Str(<<"daovotes">>)>>>>),
  Obj(<<<<"params", ParamsObj>>>>),
  Obj(<<<<"function", Str(<<"pricefeed">>)>>, <<"params", ParamsObj>>>>),
  Str(JSONstringify(Obj(<<<<"function", Str(<<"daovotes">>)>>>>))),
  Str(JSONstringify(Obj(<<<<"params", ParamsObj>>>>))),
  Str(JSONstringify(Obj(<<<<"function", Str(<<"pricefeed">>)>>, <<"params", ParamsObj>>>>))),
  Str(JSONstringify(Obj(<<>>))),
  Str(<<"{", "oops">>),
  Str(<<"0x", "zz">>),
  Str(abiEncodeCallData(<<"daovotes">>, <<"not json">>)),
  Str(abiEncodeCallData(<<"daovotes">>, <<>>)),
  Str(abiEncodeCallData(<<>>, JSONstringify(ParamsObj))),
  Str(abiEncodeCallData(<<"daovotes">>, JSONstringify(ParamsObj))) }

DecodeInputs == { [op |-> "decode", data |-> d] : d \in DecodeData }

\* method names and params objects a client encodes
RoundTripNames == {<<"pricefeed">>, <<"daovotes">>, <<"nope">>, <<"get", "\"", "x">>}
RoundTripParams ==
  { Obj(<<>>), ParamsObj,
    Obj(<< <<"cacheTtl", Str(<<"abc">>)>> >>),
    Obj(<< <<"cursor", Str(CursorText)>>, <<"cacheTtl", Num(60)>> >>) }

RoundTripInputs ==
  { [op |-> "roundtrip", m |-> m, p |-> p] : m \in RoundTripNames, p \in RoundTripParams }

FnInputs == DispatchInputs \cup DecodeInputs \cup RoundTripInputs

\* the input of the call is cur, its outcome probe
FnInit ==
  /\ wallet = "key1"
  /\ cur \in FnInputs
  /\ prev = None
  /\ probe = None
  /\ now = 0
  /\ store = [l \in {} |-> <<>>]
  /\ hist = [l \in {} |-> <<>>]
  /\ last = None
  /\ reqs = <<>>
  /\ running = 0

\* executeCompute(name, params)
Dispatch ==
  /\ cur.op = "executeCompute"
  /\ probe = None
  /\ probe' = executeCompute(cur.name, cur.params, cur.settles)
  /\ UNCHANGED <<wallet, cur, prev, now, rlVars, gwVars>>

\* the decoder of POST /lookup on req.body.data
Decode ==
  /\ cur.op = "decode"
  /\ probe = None
  /\ probe' = decodeCallData(cur.data)
  /\ UNCHANGED <<wallet, cur, prev, now, rlVars, gwVars>>

\* examples/client.js lines 36-39, then the decoder on what was encoded
RoundTrip ==
  /\ cur.op = "roundtrip"
  /\ probe = None
  /\ probe' = decodeCallData(Str(abiEncodeCallData(cur.m, JSONstringify(cur.p))))
  /\ UNCHANGED <<wallet, cur, prev, now, rlVars, gwVars>>

FnNext == Dispatch \/ Decode \/ RoundTrip

SpecFn == FnInit /\ [][FnNext]_vars

\* executeCompute has been called and has settled
Dispatched == cur.op = "executeCompute" /\ probe # None

\* C15: for every name that listFunctions() does not return, executeCompute
\* throws 'Unknown compute function: <name>' and invokes no function; for
\* every registered name it gives what exactly that function gives.
C15_DispatchExact ==
  Dispatched =>
    IF isRegistered(cur.name.s)
    THEN /\ probe.invoked = Flat(cur.name.s)
         /\ ~probe.thrown => probe.value = resultOf(Flat(cur.name.s))
    ELSE /\ probe.thrown
         /\ probe.value = Str(<<"Unknown compute function: ">> \o cur.name.s)
         /\ probe.invoked = ""

\* the client's encoding has been decoded
RoundTripped == cur.op = "roundtrip" /\ probe # None

\* C18: for every non-empty method name m and JSON-object params p, decoding
\* the 0x hex ABI encoding of (string m, bytes utf8(JSON(p))) yields exactly
\* (m, p).
C18_DecoderRoundTrip ==
  RoundTripped => probe.fn = cur.m /\ probe.params = cur.p

\* a name and a cursor that hold a double quote have gone through
C18_Witness ==
  /\ RoundTripped
  /\ cur.m = <<"get", "\"", "x">>
  /\ Get(cur.p, "cursor") = Str(CursorText)
  /\ probe.fn = cur.m
  /\ probe.params = cur.p

\* the decoder has run on req.body.data
DecodedData == cur.op = "decode" /\ probe # None

\* the 0x text is not the encoding of a (string, bytes) tuple
BadTuple(data) ==
  IsString(data) /\ startsWith0x(data.s) /\ abiDecodeCallData(data.s) = Thrown

\* the tuple decodes and its bytes are not JSON text
BadParams(data) ==
  /\ IsString(data) /\ startsWith0x(data.s)
  /\ abiDecodeCallData(data.s) # Thrown
  /\ JSONparse(abiDecodeCallData(data.s)[2]) = Thrown

\* the text is neither 0x text nor JSON text
BadText(data) ==
  /\ IsString(data) /\ data.s # <<>> /\ ~startsWith0x(data.s)
  /\ JSONparse(data.s) = Thrown

\* C19 as stated: if decoding data raises an error at any point (not a valid
\* ABI tuple, params bytes that are not valid JSON, a text that is not valid
\* JSON), the decoder yields exactly the defaults "pricefeed" and {}.
C19_AnyErrorGivesDefaults ==
  (DecodedData /\ (BadTuple(cur.data) \/ BadParams(cur.data) \/ BadText(cur.data))) =>
    probe.fn = DefaultFunction /\ probe.params = Obj(<<>>)

\* C19, amended: data that is not a valid ABI tuple, or a text that is not
\* valid JSON, yields exactly the defaults "pricefeed" and {}; params bytes
\* that are not valid JSON yield {} for the params and keep the method name
\* that was decoded ("pricefeed" only if that name is empty).  In every case
\* a warning is logged, the decoder returns and the request goes on to
\* dispatch.
C19_ErrorsHandled ==
  DecodedData =>
    /\ (BadTuple(cur.data) \/ BadText(cur.data)) =>
         /\ probe.fn = DefaultFunction /\ probe.params = Obj(<<>>)
         /\ probe.warned = "data"
    /\ BadParams(cur.data) =>
         /\ probe.params = Obj(<<>>)
         /\ probe.fn = IF abiDecodeCallData(cur.data.s)[1] = <<>> THEN DefaultFunction
                       ELSE abiDecodeCallData(cur.data.s)[1]
         /\ probe.warned = "params"

\* ABI data naming daovotes with params bytes that are not JSON has been
\* decoded to daovotes and {}
C19_Witness ==
  /\ DecodedData
  /\ cur.data = Str(abiEncodeCallData(<<"daovotes">>, <<"not json">>))
  /\ probe.warned = "params"
  /\ probe.fn = <<"daovotes">>
  /\ probe.params = Obj(<<>>)

\* the data is JSON text or an object that gives an object without the member
WithoutMember(data, key) ==
  IF IsString(data)
  THEN /\ ~startsWith0x(data.s)
       /\ JSONparse(data.s) # Thrown
       /\ Get(JSONparse(data.s), key) = Undefined
  ELSE data.t = "object" /\ Len(data.kv) > 0 /\ Get(data, key) = Undefined

\* C20: with data missing, "" or {} no decoding is attempted, no warning is
\* logged and the decoder yields "pricefeed" and {}; with JSON-text or object
\* data an absent function yields "pricefeed" and absent params yield {}.
C20_EmptyAndAbsent ==
  DecodedData =>
    /\ cur.data \in {Undefined, Str(<<>>), Obj(<<>>)} =>
         /\ ~probe.tried
         /\ probe.warned = "none"
         /\ probe.fn = DefaultFunction /\ probe.params = Obj(<<>>)
    /\ WithoutMember(cur.data, "function") =>
         probe.fn = DefaultFunction /\ probe.warned = "none"
    /\ WithoutMember(cur.data, "params") =>
         probe.params = Obj(<<>>) /\ probe.warned = "none"

\* JSON text that names daovotes and gives no params has been decoded
C20_Witness ==
  /\ DecodedData
  /\ cur.data = Str(JSONstringify(Obj(<<<<"function", Str(<<"daovotes">>)>>>>)))
  /\ probe.fn = <<"daovotes">>
  /\ probe.params = Obj(<<>>)
  /\ probe.tried

---------------------------------------------------------------------------
(* The request pipeline: part_000.  A callback runs on the event loop until  *)
(* it returns or awaits; `running` is the request whose callback has the     *)
(* loop.  Timers fire and the clock is read between callbacks.               *)

NumReqs == 2
Reqs == 1..NumReqs

NodeOK == Str(<<"0x", Hex64>>)
NameOK == Str(<<"alice", ".", "eth">>)
NameBad == Str(<<"alice", " ", "Bob", ".", "eth">>)
KeyA == Str(<<"keyA">>)

\* the requests that arrive: route, x-api-key header, address, JSON body
Incoming == {
  [route |-> "lookup", apiKey |-> Undefined, ip |-> "ip1",
   body |-> Obj(<<<<"node", NodeOK>>, <<"name", NameOK>>,
                  <<"data", Obj(<<<<"function", Str(<<"pricefeed">>)>>,
                                  <<"params", ParamsObj>>>>)>>>>)],
  [route |-> "lookup", apiKey |-> KeyA, ip |-> "ip1",
   body |-> Obj(<<<<"node", NodeOK>>,
                  <<"data", Str(JSONstringify(
                      Obj(<<<<"function", Str(<<"nope">>)>>>>)))>>>>)],
  [route |-> "lookup", apiKey |-> Undefined, ip |-> "ip1",
   body |-> Obj(<<<<"node", NodeOK>>, <<"name", NameBad>>>>)],
  [route |-> "lookup", apiKey |-> Undefined, ip |-> "ip1",
   body |-> Obj(<<<<"name", NameOK>>>>)],
  [route |-> "lookup", apiKey |-> KeyA, ip |-> "ip1",
   body |-> Obj(<<<<"node", NodeOK>>,
                  <<"data", Str(abiEncodeCallData(<<"pricefeed">>,
                                                  JSONstringify(ParamsObj)))>>,
                  <<"useEnvelope", Bool(FALSE)>>>>)],
  [route |-> "compute", apiKey |-> Undefined, ip |-> "ip1",
   body |-> Obj(<<<<"function", Str(<<"pricefeed">>)>>, <<"params", ParamsObj>>>>)],
  [route |-> "compute", apiKey |-> KeyA, ip |-> "ip1",
   body |-> Obj(<<<<"function", Str(<<"pricefeed">>)>>, <<"params", Str(<<"x">>)>>>>)],
  [route |-> "compute", apiKey |-> Undefined, ip |-> "ip1",
   body |-> Obj(<<<<"params", ParamsObj>>>>)] }

\* params whose cacheTtl the uint256 coder does not take
BadTtlParams == Obj(<< <<"cacheTtl", Str(<<"abc">>)>> >>)

\* values of req.body.data
DataValues == {
  Undefined,
  Obj(<<<<"function", Str(<<"pricefeed">>)>>, <<"params", ParamsObj>>>>),
  Str(JSONstringify(Obj(<<<<"function", Str(<<"nope">>)>>>>))),
  Obj(<<<<"function", Str(<<"constructor">>)>>>>),
  Obj(<<<<"function", Str(<<"__proto__">>)>>>>),
  Obj(<<<<"function", Str(<<"pricefeed">>)>>, <<"params", BadTtlParams>>>>),
  Str(abiEncodeCallData(<<"daovotes">>, JSONstringify(ParamsObj))) }

\* values of req.body.useEnvelope; Undefined is the member left out
UseEnvelopeValues == {Undefined, Bool(TRUE), Null, Num(0), Str(<<"false">>), Bool(FALSE)}

\* a JSON body with the members that are given
Body(node, name, data, ue) ==
  LET all == << <<"node", node>>, <<"name", name>>, <<"data", data>>,
                <<"useEnvelope", ue>> >>
  IN Obj(SelectSeq(all, LAMBDA m : m[2] # Undefined))

LookupIncoming ==
  { [route |-> "lookup", apiKey |-> Undefined, ip |-> "ip1",
     body |-> Body(NodeOK, Undefined, d, ue)] : d \in DataValues, ue \in UseEnvelopeValues }
  \cup
  { [route |-> "lookup", apiKey |-> Undefined, ip |-> "ip1", body |-> b] :
      b \in {Body(NodeOK, NameBad, Undefined, Undefined),
             Body(Undefined, NameOK, Undefined, Undefined),
             Body(Undefined, NameBad, Undefined, Undefined),
             Body(Undefined, Undefined,
                  Obj(<<<<"function", Str(<<"pricefeed">>)>>, <<"params", ParamsObj>>>>),
                  Bool(FALSE)),
             Body(Str(<<>>), NameOK,
                  Str(abiEncodeCallData(<<"daovotes">>, JSONstringify(ParamsObj))),
                  Undefined)} }

\* lengths of a data string around the two limits: serialized, it has two
\* characters more
DataLengths == {8, 99998, 99999, 102298, 102398, 102399}

\* lookups whose data is a string of these lengths
SizedIncoming ==
  { [route |-> "lookup", apiKey |-> Undefined, ip |-> "ip1",
     body |-> Body(NodeOK, Undefined, Str(<<Repeat("a", n)>>), Undefined)] : n \in DataLengths }

\* values of req.body.name: names that pass as they are or once sanitized,
\* names that do not, and names of more than 255 characters
NameValues == {
  NameOK, NameBad, Num(5), Str(<<NUL>>),
  Str(<<"Bob", ".", "ETH">>),
  Str(<<" ", NUL, "alice", ".", "eth", "\n">>),
  Str(<<Repeat("a", 251), ".", "eth">>),
  Str(<<Repeat("a", 251), ".", "eth", "!">>),
  Str(<<Repeat("a", 255), ".", "eth">>) }

\* values of req.body.node: 66 characters after "0x" or not, hexadecimal
\* digits or not, names namehash takes or refuses
NodeValues == {
  NodeOK, Num(5),
  Str(<<"0x", Repeat("z", 64)>>),
  Str(<<"0x", Repeat("z", 63), " ">>),
  Str(<<"0x", Hex64, "1">>),
  Str(<<"0x", "a-b", ".", "eth">>),
  Str(<<"alice", ".", "eth">>),
  Str(<<"alice", ".", ".", "eth">>),
  Str(<<"alice", " ", "Bob">>) }

NodeIncoming ==
  { [route |-> "lookup", apiKey |-> Undefined, ip |-> "ip1",
     body |-> Body(node, Undefined, Undefined, Undefined)] : node \in NodeValues }

\* params with a string member that holds a NUL or has 1001 characters
ParamValues == {
  ParamsObj,
  Obj(<< <<"pair", Str(<<"eth", NUL, "ereum">>)>> >>),
  Obj(<< <<"pair", Str(<<Repeat("a", 1000), "b">>)>>, <<"limit", Num(5)>> >>) }

\* the same params in the data of a lookup and in the body of POST /compute
ParamIncoming ==
  { [route |-> "lookup", apiKey |-> Undefined, ip |-> "ip1",
     body |-> Body(NodeOK, Undefined,
                   Obj(<<<<"function", Str(<<"pricefeed">>)>>, <<"params", p>>>>),
                   Undefined)] : p \in ParamValues }
  \cup
  { [route |-> "compute", apiKey |-> Undefined, ip |-> "ip1",
     body |-> Obj(<<<<"function", Str(<<"pricefeed">>)>>, <<"params", p>>>>)] :
      p \in ParamValues }

NamedIncoming ==
  { [route |-> "lookup", apiKey |-> Undefined, ip |-> "ip1",
     body |-> Body(NodeOK, name, Undefined, Undefined)] : name \in NameValues }

\* the requests the validator is run on
ValidationIncoming ==
  SizedIncoming \cup NamedIncoming \cup NodeIncoming \cup ParamIncoming

\* the routes registered with app.get (part_000 lines 164, 176, 184, 191)
GetRoutes == {"health", "metrics", "api/metrics", "functions"}

\* one request to each route from one address without a key; a request
\* without a body has the empty object as req.body
RouteIncoming ==
  { [route |-> g, apiKey |-> Undefined, ip |-> "ip1", body |-> Obj(<<>>)] : g \in GetRoutes }
  \cup
  { [route |-> "lookup", apiKey |-> Undefined, ip |-> "ip1",
     body |-> Obj(<<<<"node", NodeOK>>>>)],
    [route |-> "compute", apiKey |-> Undefined, ip |-> "ip1",
     body |-> Obj(<<<<"function", Str(<<"pricefeed">>)>>>>)] }

\* every body and every call data that arrives
AllBodies ==
  {q.body : q \in Incoming \cup LookupIncoming \cup ValidationIncoming \cup RouteIncoming}
AllData == {Get(b, "data") : b \in AllBodies}

\* validateRequest and the decoder for every input of the model, evaluated once
validateRequestOf == [b \in AllBodies |-> validateRequest(b)]
jsonParserAcceptsOf == [b \in AllBodies |-> jsonParserAccepts(b)]
serializedSizeOf == [b \in AllBodies |-> serializedSize(Get(b, "data"))]
decodeCallDataOf == [d \in AllData |-> decodeCallData(d)]

\* monitoring/metrics.js: the counters a request can add to
ZeroMetrics == [total |-> 0, success |-> 0, errors |-> 0, generated |-> 0]

\* metrics.recordRequest, its counters
recordRequest(m, success) ==
  [m EXCEPT !.total = @ + 1,
            !.success = IF success THEN @ + 1 ELSE @,
            !.errors = IF success THEN @ ELSE @ + 1]

\* mutant: the signature is not counted
recordSignatureGenerated_none(m) == m

\* metrics.recordSignatureGenerated
recordSignatureGenerated(m) == [m EXCEPT !.generated = @ + 1]

\* a free slot.  trace is the steps the request has gone through, recorded is
\* what its handler has added to the metrics counters, path is the branch of
\* the handler that makes the signature, details is the details member of a
\* 400 response, dataSize is the serialized size of the data it came with
Idle ==
  [pc |-> "idle", route |-> "", apiKey |-> Undefined, ip |-> "", body |-> Undefined,
   t |-> 0, fn |-> Undefined, params |-> Undefined, status |-> 0, resp |-> "",
   dispatched |-> FALSE, signed |-> FALSE, trace |-> <<>>, recorded |-> ZeroMetrics,
   path |-> "", details |-> <<>>, dataSize |-> 0]

\* the request has gone through one more step
Did(rec, step) == [rec EXCEPT !.trace = Append(@, step)]

\* mutant: a limiter whose store is awaited between its steps
AwaitPoints_asyncStore == {"body", "compare", "push", "computing", "signing", "respond"}

\* where a request is suspended with the loop free: reading the body
\* (express.json), awaiting executeCompute, awaiting createEnvelope or
\* signResult, writing the response.  check and the middlewares await nothing.
AwaitPoints == {"body", "computing", "signing", "respond"}

\* request r is at label and may take its next step
CanRun(r, label) ==
  /\ reqs[r].pc = label
  /\ running = r \/ (running = 0 /\ label \in AwaitPoints)

\* who has the loop once r has moved to label: nobody when r awaits or its
\* callback has ended
Release(r, label) == IF label \in AwaitPoints \/ label = "unanswered" THEN 0 ELSE r

\* res.status(status).json(...): the first response is the one that is sent
Respond(rec, status, resp) ==
  IF rec.status = 0
  THEN [rec EXCEPT !.status = status, !.resp = resp, !.trace = Append(@, "respond")]
  ELSE rec

\* the request moved to label; once its response is sent, what it came with
\* is read no more and is dropped
At(rec, label) ==
  IF label = "respond"
  THEN [rec EXCEPT !.pc = label, !.apiKey = Undefined, !.ip = "", !.body = Undefined,
                   !.t = 0, !.fn = Undefined, !.params = Undefined]
  ELSE [rec EXCEPT !.pc = label]

limiterOfReq(r) == limiterOf(reqs[r].apiKey)
keyOfReq(r) == identifierOf(reqs[r].apiKey, reqs[r].ip)

GwInit ==
  /\ wallet = "key1"
  /\ cur = None
  /\ prev = None
  /\ probe = None
  /\ now = 0
  /\ store = [l \in Limiters |-> EmptyMap]
  /\ hist = [l \in Limiters |-> EmptyMap]
  /\ last = None
  /\ reqs = [r \in Reqs |-> Idle]
  /\ running = 0

\* a request arrives and express.json (part_000 line 18) starts reading its
\* body, or refuses a body over its limit: the request is then answered 413
\* by the error handler and goes through no other middleware
Arrive(r, q) ==
  /\ reqs[r].pc = "idle"
  /\ \A j \in 1..(r - 1) : reqs[j].pc # "idle"
  /\ LET rec == [Idle EXCEPT !.route = q.route, !.apiKey = q.apiKey, !.ip = q.ip,
                              !.dataSize = serializedSizeOf[q.body]]
     IN reqs' = [reqs EXCEPT ![r] =
                   IF jsonParserAcceptsOf[q.body]
                   THEN [rec EXCEPT !.pc = "body", !.body = q.body]
                   ELSE At(Respond(rec, 413, "request entity too large"), "respond")]
  /\ UNCHANGED <<envVars, rlVars, now, running>>

\* mutant: the limiter mounted on the dispatching routes only
rateLimited_dispatchOnly(route) == route \in {"lookup", "compute"}

\* app.use(rateLimitMiddleware) (part_000 line 21) is mounted without a path,
\* before every route
rateLimited(route) == TRUE

\* what follows the middlewares mounted with app.use: the handler of a GET
\* route, validateRequest on the POST routes (lines 36, 201)
afterMiddleware(route) == IF route \in GetRoutes THEN "get" ELSE "validate"

\* rateLimitMiddleware calls check: rateLimit.js lines 19-32, the entry got or
\* created and its old timestamps dropped
EnterCheck(r) ==
  /\ CanRun(r, "body")
  /\ LET l == limiterOfReq(r)
         k == keyOfReq(r)
         to == IF rateLimited(reqs[r].route) THEN "compare"
               ELSE afterMiddleware(reqs[r].route)
     IN /\ store' = IF rateLimited(reqs[r].route)
                    THEN [store EXCEPT ![l] =
                            Put(store[l], k, evict(bucketOf(store[l], k), now - windowMs(l)))]
                    ELSE store
        /\ reqs' = [reqs EXCEPT ![r].pc = to, ![r].t = now]
        /\ running' = Release(r, to)
  /\ UNCHANGED <<envVars, now, hist, last>>

\* mutant: the middleware answers 429 and goes on to next()
afterCompare_noReturn(denied) == "push"

\* rateLimit.js lines 119-136: a denied request is answered and returns, an
\* admitted one goes on
afterCompare(denied) == IF denied THEN "respond" ELSE "push"

\* rateLimit.js lines 35-37, and lines 119-125 when the limit is reached
Compare(r) ==
  /\ CanRun(r, "compare")
  /\ LET l == limiterOfReq(r)
         denied == Len(bucketOf(store[l], keyOfReq(r))) >= maxRequests(l)
         to == afterCompare(denied)
         rec == Did(reqs[r], "admit")
     IN /\ reqs' = [reqs EXCEPT ![r] =
                      IF denied
                      THEN At(Respond(rec, 429, "Rate limit exceeded"), to)
                      ELSE At(rec, to)]
        /\ running' = Release(r, to)
  /\ UNCHANGED <<envVars, rlVars, now>>

\* rateLimit.js lines 40-41, then lines 128-134: the headers, with remaining
Push(r) ==
  /\ CanRun(r, "push")
  /\ LET l == limiterOfReq(r)
         k == keyOfReq(r)
         pushed == Put(store[l], k, Append(bucketOf(store[l], k), reqs[r].t))
     IN store' = [store EXCEPT ![l] =
                    remaining(pushed, k, now, windowMs(l), maxRequests(l)).store]
  /\ reqs' = [reqs EXCEPT ![r].pc = afterMiddleware(reqs[r].route), ![r].t = 0]
  /\ running' = Release(r, afterMiddleware(reqs[r].route))
  /\ UNCHANGED <<envVars, now, hist, last>>

\* the handlers of GET /health, /metrics, /api/metrics and /functions
\* (part_000 lines 164-196): they answer at once
GetHandler(r) ==
  /\ CanRun(r, "get")
  /\ reqs' = [reqs EXCEPT ![r] = At(Respond(reqs[r], 200, reqs[r].route), "respond")]
  /\ running' = Release(r, "respond")
  /\ UNCHANGED <<envVars, rlVars, now>>

\* validateRequest
Validate(r) ==
  /\ CanRun(r, "validate")
  /\ LET v == validateRequestOf[reqs[r].body]
         to == IF validationPasses(v.errors) THEN "handler" ELSE "respond"
         rec == Did([reqs[r] EXCEPT !.body = v.body], "validate")
     IN /\ reqs' = [reqs EXCEPT ![r] =
                      At(IF Len(v.errors) > 0
                         THEN Respond([rec EXCEPT !.details = v.errors],
                                      400, "Validation failed")
                         ELSE rec, to)]
        /\ running' = Release(r, to)
  /\ UNCHANGED <<envVars, rlVars, now>>

\* mutant: only a body without the member is refused
nodeMissing_absentOnly(body) == Get(body, "node") = Undefined

\* if (!node) (part_000 line 41)
nodeMissing(body) == ~Truthy(Get(body, "node"))

\* the handler up to its first await: part_000 lines 37-86 and 202-209
Handler(r) ==
  /\ CanRun(r, "handler")
  /\ LET body == reqs[r].body
         lookup == reqs[r].route = "lookup"
         missing == IF lookup THEN nodeMissing(body)
                    ELSE ~Truthy(Get(body, "function"))
         d == decodeCallDataOf[Get(body, "data")]
         to == IF missing THEN "respond" ELSE "computing"
     IN /\ reqs' = [reqs EXCEPT ![r] =
                      IF missing
                      THEN At(Respond(reqs[r], 400,
                                      IF lookup THEN "Missing node parameter"
                                      ELSE "Missing function parameter"), to)
                      ELSE [reqs[r] EXCEPT
                              !.pc = to,
                              !.dispatched = TRUE,
                              !.trace = IF lookup THEN @ \o <<"decode", "dispatch">>
                                        ELSE Append(@, "dispatch"),
                              !.fn = IF lookup THEN Str(d.fn) ELSE Get(body, "function"),
                              !.params = IF lookup THEN d.params
                                         ELSE OrElse(Get(body, "params"), Obj(<<>>))]]
        /\ running' = Release(r, to)
  /\ UNCHANGED <<envVars, rlVars, now>>

\* what the catch block of POST /lookup (lines 153-158) ends in: it reads
\* functionName, which is declared inside the try block, so it throws before
\* it responds; the request is then answered 500 by the framework's error
\* handler or not answered at all
LookupCatchOutcomes == {500, 0}

\* the catch block of POST /lookup: the ReferenceError is raised by the
\* argument of metrics.recordRequest, before the call and before res.status
lookupCatch(rec, outcome) ==
  IF outcome = 0 THEN At(rec, "unanswered")
  ELSE At(Respond(rec, 500, "functionName is not defined"), "respond")

\* the catch block of POST /compute (lines 217-220)
computeCatch(rec, error) == At(Respond(rec, 500, Flat(error.s)), "respond")

\* mutant: the envelope is chosen by the truth value of the member
useEnvelope_truthy(body) == Truthy(Get(body, "useEnvelope"))

\* req.body.useEnvelope !== false (line 89)
useEnvelope(body) == Get(body, "useEnvelope") # Bool(FALSE)

\* the branch taken once the result is there (lines 91, 134, 210)
pathOf(route, body) ==
  IF route = "compute" THEN "result"
  ELSE IF useEnvelope(body) THEN "envelope"
  ELSE "legacy"

\* executeCompute settles and the handler goes on to its next await:
\* createEnvelope (line 93) or signResult (lines 136, 210)
ComputeReturns(r, settles, outcome) ==
  /\ CanRun(r, "computing")
  /\ LET e == executeCompute(reqs[r].fn, reqs[r].params, settles)
         rec == IF e.thrown
                THEN IF reqs[r].route = "lookup" THEN lookupCatch(reqs[r], outcome)
                     ELSE computeCatch(reqs[r], e.value)
                ELSE At(Did(Did([reqs[r] EXCEPT !.path = pathOf(reqs[r].route, reqs[r].body)],
                                "computed"), "build"), "signing")
     IN /\ reqs' = [reqs EXCEPT ![r] = rec]
        /\ running' = Release(r, rec.pc)
  /\ UNCHANGED <<envVars, rlVars, now>>

Bytes32Values == {ZeroHash, Hash1, "0x" \o Hex64}

\* a decimal string, which the uint256 coder takes as a number
isNumeric(text) ==
  /\ text # <<>>
  /\ \A i \in DOMAIN text : \E d \in DOMAIN DigitChar : text[i] = DigitChar[d]

\* the members of the envelope that createEnvelope takes over as they are
\* given (signer.js lines 137-138, 141-142, 144)
passedThrough(params) ==
  Obj(<< <<"name", Get(params, "name")>>,
         <<"method", Get(params, "method")>>,
         <<"cursor", OrElse(GetDefault(params, "cursor", Null), Null)>>,
         <<"prev_digest", OrElse(GetDefault(params, "prevDigest", Null), Null)>>,
         <<"cache_ttl", GetDefault(params, "cacheTtl", Num(30))>> >>)

\* AbiCoder.encode of part_000 lines 110-124 returns rather than throws: the
\* string fields are strings, prev_digest is 32 bytes, cache_ttl is a
\* non-negative integer
envelopeEncodes(envelope) ==
  LET cursor == OrElse(Get(envelope, "cursor"), Str(<<>>))
      prevDigest == OrElse(Get(envelope, "prev_digest"), Str(<<ZeroHash>>))
      cacheTtl == Get(envelope, "cache_ttl")
  IN /\ IsString(Get(envelope, "name"))
     /\ IsString(Get(envelope, "method"))
     /\ IsString(cursor)
     /\ IsString(prevDigest) /\ Flat(prevDigest.s) \in Bytes32Values
     /\ \/ cacheTtl.t = "number" /\ cacheTtl.n >= 0
        \/ IsString(cacheTtl) /\ isNumeric(cacheTtl.s)

\* the signature is made and the response sent: lines 110-133, 137-151,
\* 212-216; on the envelope path the ABI encoding can throw into the catch block
SignReturns(r, outcome) ==
  /\ CanRun(r, "signing")
  /\ LET lookup == reqs[r].route = "lookup"
         path == reqs[r].path
         envelope == passedThrough(lookupEnvelopeParams(
                       Get(reqs[r].body, "name"), reqs[r].fn, reqs[r].params,
                       ResultObj, now))
         signed == Did([reqs[r] EXCEPT !.signed = TRUE], "signed")
         rec == IF path = "envelope" /\ ~envelopeEncodes(envelope)
                THEN lookupCatch(signed, outcome)
                ELSE At(Respond(
                          IF lookup
                          THEN [signed EXCEPT !.recorded =
                                  recordSignatureGenerated(recordRequest(@, TRUE))]
                          ELSE signed,
                          200, path), "respond")
     IN /\ reqs' = [reqs EXCEPT ![r] = rec]
        /\ running' = Release(r, rec.pc)
  /\ UNCHANGED <<envVars, rlVars, now>>

\* the response is written out and the slot is free again
ResponseWritten(r) ==
  /\ CanRun(r, "respond")
  /\ reqs' = [reqs EXCEPT ![r] = Idle]
  /\ running' = 0
  /\ UNCHANGED <<envVars, rlVars, now>>

\* the client of a request that is never answered closes the connection
ClientGivesUp(r) ==
  /\ reqs[r].pc = "unanswered"
  /\ running = 0
  /\ reqs' = [reqs EXCEPT ![r] = Idle]
  /\ UNCHANGED <<envVars, rlVars, now, running>>

GwNext ==
  \/ \E r \in Reqs, q \in Incoming : Arrive(r, q)
  \/ \E r \in Reqs : EnterCheck(r)
  \/ \E r \in Reqs : Compare(r)
  \/ \E r \in Reqs : Push(r)
  \/ \E r \in Reqs : Validate(r)
  \/ \E r \in Reqs : Handler(r)
  \/ \E r \in Reqs, settles \in BOOLEAN, outcome \in LookupCatchOutcomes :
       ComputeReturns(r, settles, outcome)
  \/ \E r \in Reqs, outcome \in LookupCatchOutcomes : SignReturns(r, outcome)
  \/ \E r \in Reqs : ResponseWritten(r)
  \/ \E r \in Reqs : ClientGivesUp(r)
  \/ Cleanup
  \/ Tick

SpecGw == GwInit /\ [][GwNext]_vars

---------------------------------------------------------------------------
(* One POST /lookup at a time, over more request bodies                      *)

LkInit ==
  /\ wallet = "key1"
  /\ cur = None
  /\ prev = None
  /\ probe = None
  /\ now = 0
  /\ store = [l \in Limiters |-> EmptyMap]
  /\ hist = [l \in Limiters |-> EmptyMap]
  /\ last = None
  /\ reqs = [r \in {1} |-> Idle]
  /\ running = 0

LkNext ==
  \/ \E q \in LookupIncoming : Arrive(1, q)
  \/ EnterCheck(1)
  \/ Compare(1)
  \/ Push(1)
  \/ Validate(1)
  \/ Handler(1)
  \/ \E settles \in BOOLEAN, outcome \in LookupCatchOutcomes :
       ComputeReturns(1, settles, outcome)
  \/ \E outcome \in LookupCatchOutcomes : SignReturns(1, outcome)
  \/ ResponseWritten(1)
  \/ ClientGivesUp(1)
  \/ Cleanup
  \/ Tick

SpecLookup == LkInit /\ [][LkNext]_vars

\* a lookup that has ended without the 200 of its handler
Failed(rec) ==
  /\ rec.route = "lookup"
  /\ rec.pc \in {"respond", "unanswered"}
  /\ rec.status # 200

\* C12: every POST /lookup that fails at any step (denied by the limiter,
\* rejected by the validator, or failing in decode, dispatch, envelope build
\* or encoding) adds exactly one to requests.errors and gets an error response.
C12_FailureCountedOnce ==
  \A r \in DOMAIN reqs :
    Failed(reqs[r]) =>
      /\ reqs[r].recorded.errors = 1
      /\ reqs[r].status \in {400, 429, 500}

\* the handler of request r gets the outcome of executeCompute in this step
ComputeSettles(r) == reqs[r].pc = "computing" /\ reqs'[r].pc # "computing"

\* C13: a lookup naming a method that is not registered is answered 500 with
\* a body whose error holds "Unknown compute function", and the error counter
\* is incremented; no envelope is built and nothing is signed for it.
C13_UnknownMethodIs500 ==
  [][\A r \in DOMAIN reqs :
       (/\ reqs[r].route = "lookup"
        /\ ComputeSettles(r)
        /\ ~isRegistered(reqs[r].fn.s))
       => /\ reqs'[r].status = 500
          /\ reqs'[r].resp = Flat(<<"Unknown compute function: ">> \o reqs[r].fn.s)
          /\ reqs'[r].recorded.errors = 1
          /\ reqs'[r].path = ""
          /\ ~reqs'[r].signed]_vars

\* a step of the request in flight: a callback of it that is ready to run, or
\* the settling of the promise it awaits
LkStep ==
  \/ EnterCheck(1)
  \/ Compare(1)
  \/ Push(1)
  \/ Validate(1)
  \/ Handler(1)
  \/ \E settles \in BOOLEAN, outcome \in LookupCatchOutcomes :
       ComputeReturns(1, settles, outcome)
  \/ \E outcome \in LookupCatchOutcomes : SignReturns(1, outcome)
  \/ ResponseWritten(1)

\* lookups that are denied, rejected, answered, or that throw in dispatch or
\* in the encoding
FairIncoming ==
  { q \in LookupIncoming :
      /\ Get(q.body, "useEnvelope") \in {Undefined, Bool(FALSE)}
      /\ Get(q.body, "data") \in
           {Undefined, Obj(<<<<"function", Str(<<"pricefeed">>)>>, <<"params", BadTtlParams>>>>),
            Str(JSONstringify(Obj(<<<<"function", Str(<<"nope">>)>>>>)))} }

LkFairNext ==
  \/ \E q \in FairIncoming : Arrive(1, q)
  \/ LkStep
  \/ ClientGivesUp(1)
  \/ Cleanup
  \/ Tick

\* the event loop runs every callback that is ready, and the compute function
\* returns or throws
SpecLookupFair == LkInit /\ [][LkFairNext]_vars /\ WF_vars(LkStep)

\* the request in the slot has its HTTP response
Answered(r) == reqs[r].status \in {200, 400, 429, 500}

\* C14: every POST /lookup eventually receives an HTTP response (200, 400,
\* 429 or 500), provided its compute function returns or throws; this
\* includes the requests whose dispatch or envelope construction throws.
C14_EventuallyAnswered ==
  (reqs[1].route = "lookup" /\ reqs[1].pc = "body") ~> Answered(1)

\* the handler of the lookup has taken one of its two branches, and the body
\* is still there to compare with
Branched(rec) == rec.route = "lookup" /\ rec.path # "" /\ rec.body # Undefined

\* the lookup has ended: answered, or given up by its handler
Ended(rec) == rec.route = "lookup" /\ rec.pc \in {"respond", "unanswered"}

\* C16 as stated: the envelope path is taken iff body.useEnvelope is not
\* exactly the boolean false; the response contains an envelope key iff the
\* envelope path was taken; exactly one of the two paths runs.
C16_ResponseHasEnvelopeIffPath ==
  \A r \in DOMAIN reqs :
    /\ Branched(reqs[r]) =>
         /\ reqs[r].path \in {"envelope", "legacy"}
         /\ reqs[r].path = "envelope" <=> Get(reqs[r].body, "useEnvelope") # Bool(FALSE)
    /\ (Ended(reqs[r]) /\ reqs[r].path # "") =>
         (reqs[r].resp = "envelope" <=> reqs[r].path = "envelope")

\* C16, amended: the envelope path is taken iff body.useEnvelope is not
\* exactly the boolean false (absent, true, null, 0 and "false" all select
\* the envelope); exactly one of the two paths runs for a request whose
\* compute function returned; the 200 response contains an envelope key iff
\* the envelope path was taken.
C16_EnvelopeIffNotFalse ==
  \A r \in DOMAIN reqs :
    /\ Branched(reqs[r]) =>
         /\ reqs[r].path \in {"envelope", "legacy"}
         /\ reqs[r].path = "envelope" <=> Get(reqs[r].body, "useEnvelope") # Bool(FALSE)
    /\ (Ended(reqs[r]) /\ reqs[r].status = 200) =>
         /\ reqs[r].resp \in {"envelope", "legacy"}
         /\ reqs[r].resp = reqs[r].path

\* a lookup that sent useEnvelope: "false" (the string) has taken the envelope
\* path
C16_Witness ==
  \E r \in DOMAIN reqs :
    /\ reqs[r].route = "lookup"
    /\ reqs[r].pc = "signing"
    /\ Get(reqs[r].body, "useEnvelope") = Str(<<"false">>)
    /\ reqs[r].path = "envelope"

\* the lookup took the envelope path, createEnvelope returned, and the
\* handler did not get to its res.json: the ABI encoding threw
EncodingFailed(rec) ==
  /\ Ended(rec)
  /\ rec.path = "envelope"
  /\ \E i \in DOMAIN rec.trace : rec.trace[i] = "signed"
  /\ rec.status # 200

\* C17: if the envelope construction or its ABI encoding fails for a request
\* that did not send useEnvelope: false, the request is answered 500 and the
\* legacy signResult path is not executed for it.
C17_EncodingFailureIs500 ==
  \A r \in DOMAIN reqs :
    EncodingFailed(reqs[r]) =>
      /\ reqs[r].status = 500
      /\ reqs[r].resp # "legacy"

---------------------------------------------------------------------------

\* request r is inside check: past the eviction, before the append is done
InCheck(r) == reqs[r].pc \in {"compare", "push"}

SameKey(r1, r2) ==
  /\ limiterOfReq(r1) = limiterOfReq(r2)
  /\ keyOfReq(r1) = keyOfReq(r2)

\* C9: check-and-record is exclusive per key. Whatever the interleaving of
\* the requests in flight, no two of them are inside check for the same key
\* at once, and no bucket ever holds more than N timestamps (two requests
\* never both see N - 1 and both get recorded).
C9_CheckExclusive ==
  /\ \A r1 \in DOMAIN reqs : \A r2 \in DOMAIN reqs :
       (r1 # r2 /\ InCheck(r1) /\ InCheck(r2)) => ~SameKey(r1, r2)
  /\ \A l \in DOMAIN store : \A k \in DOMAIN store[l] :
       Len(store[l][k]) <= maxRequests(l)

\* a request found N - 1 timestamps and is about to append, while another
\* request for the same key has arrived and waits for its own check
C9_Witness ==
  \E r1 \in DOMAIN reqs : \E r2 \in DOMAIN reqs :
    /\ r1 # r2
    /\ reqs[r1].pc = "push"
    /\ reqs[r2].pc = "body"
    /\ SameKey(r1, r2)
    /\ Len(bucketOf(store[limiterOfReq(r1)], keyOfReq(r1)))
         = maxRequests(limiterOfReq(r1)) - 1

\* C10: on POST /lookup and POST /compute a request answered 429 by the rate
\* limiter or 400 by the validator (or by the handler's own presence test) has
\* not reached executeCompute and no signature was made for it.
C10_RejectedNeverDispatched ==
  \A r \in DOMAIN reqs :
    (reqs[r].route \in {"lookup", "compute"} /\ reqs[r].status \in {429, 400}) =>
      ~reqs[r].dispatched /\ ~reqs[r].signed

\* a lookup denied by the limiter and a compute rejected by the validator
C10_Witness ==
  \E r1 \in DOMAIN reqs : \E r2 \in DOMAIN reqs :
    /\ reqs[r1].route = "lookup" /\ reqs[r1].status = 429
    /\ reqs[r2].route = "compute" /\ reqs[r2].status = 400
    /\ reqs[r2].resp = "Validation failed"

\* the steps of one POST /lookup in the order the code runs them: admission
\* by the limiter, validation, decoding, the call of executeCompute and its
\* return, the call that builds and signs and its return, the response
LookupOrder ==
  <<"admit", "validate", "decode", "dispatch", "computed", "build", "signed", "respond">>

\* a trace that follows the order: the first steps of it, each once, and
\* then possibly the response
FollowsOrder(trace) ==
  \E k \in 0..(Len(LookupOrder) - 1) :
    \/ trace = SubSeq(LookupOrder, 1, k)
    \/ trace = Append(SubSeq(LookupOrder, 1, k), "respond")

\* C11: within one POST /lookup the steps happen in the fixed order admit,
\* validate, decode, dispatch compute, build and sign, respond; each happens
\* at most once and none starts before the one before has finished, whatever
\* other requests are interleaved with it.
C11_StepsInOrder ==
  \A r \in DOMAIN reqs : reqs[r].route = "lookup" => FollowsOrder(reqs[r].trace)

\* a lookup has gone through every step and is answered 200 while another
\* request is between its own steps
C11_Witness ==
  \E r1 \in DOMAIN reqs : \E r2 \in DOMAIN reqs :
    /\ r1 # r2
    /\ reqs[r1].route = "lookup" /\ reqs[r1].trace = LookupOrder
    /\ reqs[r1].status = 200
    /\ reqs[r2].pc \in {"computing", "signing"}

---------------------------------------------------------------------------
(* One request at a time, over the bodies the validator tells apart          *)

ValidationNext ==
  \/ \E q \in ValidationIncoming : Arrive(1, q)
  \/ EnterCheck(1)
  \/ Compare(1)
  \/ Push(1)
  \/ Validate(1)
  \/ Handler(1)
  \/ \E settles \in BOOLEAN, outcome \in LookupCatchOutcomes :
       ComputeReturns(1, settles, outcome)
  \/ \E outcome \in LookupCatchOutcomes : SignReturns(1, outcome)
  \/ ResponseWritten(1)
  \/ ClientGivesUp(1)
  \/ Cleanup
  \/ Tick

SpecValidation == LkInit /\ [][ValidationNext]_vars

TooLarge == "Request data too large (max 100KB)"

\* the request was rejected because of its size
RejectedForSize(rec) ==
  \/ rec.status = 413
  \/ \E i \in DOMAIN rec.details : rec.details[i] = TooLarge

\* C24: every request whose data field is larger than 100 KiB is answered 400
\* with details holding 'Request data too large (max 100KB)' before any
\* compute function is dispatched; no request with data of at most 100 KiB is
\* rejected for size.
C24_DataSizeLimit ==
  \A r \in DOMAIN reqs :
    /\ reqs[r].dataSize > 100 * 1024 =>
         /\ ~reqs[r].dispatched
         /\ reqs[r].status # 0 =>
              /\ reqs[r].status = 400
              /\ \E i \in DOMAIN reqs[r].details : reqs[r].details[i] = TooLarge
    /\ reqs[r].dataSize <= 100 * 1024 => ~RejectedForSize(reqs[r])

\* validateRequest runs on request r in this step
Validated(r) == reqs[r].pc = "validate" /\ reqs'[r].pc # "validate"

\* the name with its NUL characters stripped and its whitespace trimmed
Stripped(name) == trim(removeNul(name.s))

\* a string that, NUL stripped and trimmed, matches ^[A-Za-z0-9-]+\.eth$ and
\* has at most 255 characters
NameAcceptable(name) ==
  /\ IsString(name)
  /\ ensRegex(Stripped(name))
  /\ byteLength(Stripped(name)) <= 255

HasDetail(rec, error) == \E i \in DOMAIN rec.details : rec.details[i] = error

\* C25: a request carrying a name passes name validation iff the name, after
\* stripping NUL bytes and trimming whitespace, matches ^[A-Za-z0-9-]+\.eth$
\* and has length at most 255; otherwise the response is 400 with details
\* holding "Invalid ENS name" and nothing is dispatched.  On acceptance
\* body.name is replaced by the sanitized form.
C25_NameValidation ==
  [][\A r \in DOMAIN reqs :
       (Validated(r) /\ Truthy(Get(reqs[r].body, "name"))) =>
         LET name == Get(reqs[r].body, "name")
         IN /\ NameAcceptable(name) <=> ~HasDetail(reqs'[r], "Invalid ENS name")
            /\ ~NameAcceptable(name) =>
                 /\ reqs'[r].status = 400
                 /\ reqs'[r].pc = "respond"
                 /\ ~reqs'[r].dispatched
            /\ reqs'[r].pc = "handler" =>
                 Get(reqs'[r].body, "name") = Str(Stripped(name))]_vars

\* runs of 64 hexadecimal digits
HexRuns == {Hex64}

\* "0x" and 64 hexadecimal digits
IsBytes32Hex(text) == Len(text) = 2 /\ text[1] = "0x" /\ text[2] \in HexRuns

\* a "0x"-prefixed string of 66 characters, all hexadecimal digits after the
\* prefix, or a string the namehash algorithm accepts
NodeAcceptable(node) ==
  /\ IsString(node)
  /\ IsBytes32Hex(node.s) \/ ~namehashThrows(node.s)

\* C26: a request carrying a node passes node validation iff the node is
\* either a "0x"-prefixed string of 66 characters whose 64 characters after
\* the prefix are all hexadecimal digits, or a string that the namehash
\* algorithm accepts; every other node value produces the error "Invalid node
\* parameter" and a 400 response.
C26_NodeValidation ==
  [][\A r \in DOMAIN reqs :
       (Validated(r) /\ Truthy(Get(reqs[r].body, "node"))) =>
         LET node == Get(reqs[r].body, "node")
         IN /\ NodeAcceptable(node) <=> ~HasDetail(reqs'[r], "Invalid node parameter")
            /\ ~NodeAcceptable(node) => reqs'[r].status = 400]_vars

\* a string of at most 1000 characters without a NUL
Normalized(v) ==
  /\ byteLength(v.s) <= 1000
  /\ \A i \in DOMAIN v.s : v.s[i] # NUL

\* C27: for every request that reaches executeCompute, through POST /lookup
\* (params decoded from data) or POST /compute (params from the body), every
\* string-valued entry of the params handed to the compute function has at
\* most 1000 characters and holds no NUL byte.
C27_ParamsNormalized ==
  \A r \in DOMAIN reqs :
    (reqs[r].pc = "computing" /\ reqs[r].params.t = "object") =>
      \A i \in DOMAIN reqs[r].params.kv :
        IsString(reqs[r].params.kv[i][2]) => Normalized(reqs[r].params.kv[i][2])

---------------------------------------------------------------------------
(* rateLimitMiddleware over both limiters                                    *)

\* the x-api-key header of a request: absent, empty, or a key
ApiKeyHeaders == NoApiKey \cup {KeyA}

LimitersNext ==
  \/ \E apiKey \in ApiKeyHeaders, ip \in IpAddresses : Middleware(apiKey, ip)
  \/ Cleanup
  \/ Tick

SpecLimiters == RLInit /\ [][LimitersNext]_vars

\* what a Middleware step for a request that is to go to limiter l under key
\* must do: check that limiter under that key and no other, leave the other
\* limiter and the other keys as they are, and decide from the admissions of
\* that limiter and key alone
ChecksOnly(l, key) ==
  /\ last'.limiter = l
  /\ last'.key = key
  /\ \A m \in Limiters \ {l} : store'[m] = store[m] /\ hist'[m] = hist[m]
  /\ \A k \in DOMAIN store[l] \ {key} :
       k \in DOMAIN store'[l] /\ store'[l][k] = store[l][k]
  /\ last'.allowed <=>
       CountIn(bucketOf(hist[l], key), now - windowMs(l), now) < maxRequests(l)

\* C28 as stated: each request is checked against exactly one limiter, the
\* apiKey limiter keyed by the header value iff an X-API-Key header is present
\* on the request, otherwise the ip limiter keyed by the client address; the
\* two limiters keep separate stores, and keys do not affect one another.
C28_HeaderPresentSelects ==
  [][\A apiKey \in ApiKeyHeaders, ip \in IpAddresses :
       Middleware(apiKey, ip) =>
         IF apiKey # Undefined THEN ChecksOnly("apiKey", Flat(apiKey.s))
         ELSE ChecksOnly("ip", ip)]_vars

\* C28, amended: each request is checked against exactly one limiter, the
\* apiKey limiter keyed by the header value iff the request has an X-API-Key
\* header with a value that is not empty, otherwise (no header, or an empty
\* one) the ip limiter keyed by the client address; requests counted in one
\* limiter never change a decision of the other, and requests on one key
\* never change a decision for another key.
C28_OneLimiterPerRequest ==
  [][\A apiKey \in ApiKeyHeaders, ip \in IpAddresses :
       Middleware(apiKey, ip) =>
         IF apiKey \notin NoApiKey THEN ChecksOnly("apiKey", Flat(apiKey.s))
         ELSE ChecksOnly("ip", ip)]_vars

\* a request with a key is admitted while the bucket of an address is full
C28_Witness ==
  /\ last.t = "middleware"
  /\ last.limiter = "apiKey"
  /\ last.allowed
  /\ \E ip \in DOMAIN store["ip"] :
       /\ Len(store["ip"][ip]) = maxRequests("ip")
       /\ \A i \in DOMAIN store["ip"][ip] : store["ip"][ip][i] >= now - windowMs("ip")

---------------------------------------------------------------------------
(* The latency histogram: src/gateway/monitoring/metrics.js                  *)

\* this.metrics.latency.buckets, in ms
Buckets == <<10, 50, 100, 500, 1000, 5000>>

\* the key `le_${bucket}` of the distribution
leKey(bucket) == "le_" \o ToString(bucket)

BucketKeys == {leKey(Buckets[i]) : i \in DOMAIN Buckets} \cup {"le_inf"}

\* the constructor: every counter of the distribution at 0
ZeroLatency ==
  [sum |-> 0, count |-> 0, distribution |-> [k \in BucketKeys |-> 0]]

\* mutant: a bucket counts the latencies below its bound
recordLatency_exclusive(lat, latency) ==
  IF latency = Undefined THEN lat
  ELSE [sum |-> lat.sum + latency.n,
        count |-> lat.count + 1,
        distribution |->
          [k \in BucketKeys |->
             IF k = "le_inf"
                \/ \E i \in DOMAIN Buckets : k = leKey(Buckets[i]) /\ latency.n < Buckets[i]
             THEN lat.distribution[k] + 1
             ELSE lat.distribution[k]]]

\* recordRequest lines 57-69: sum and count, every bucket the latency is
\* within, and le_inf
recordLatency(lat, latency) ==
  IF latency = Undefined THEN lat
  ELSE [sum |-> lat.sum + latency.n,
        count |-> lat.count + 1,
        distribution |->
          [k \in BucketKeys |->
             IF k = "le_inf"
                \/ \E i \in DOMAIN Buckets : k = leKey(Buckets[i]) /\ latency.n <= Buckets[i]
             THEN lat.distribution[k] + 1
             ELSE lat.distribution[k]]]

\* names that byMethod, an object literal, inherits from Object.prototype
InheritedNames == {"constructor", "toString", "__proto__"}

\* recordRequest lines 47-55: the counters of the method, created at 0 when
\* byMethod[method] is falsy. An inherited name reads as a function or as the
\* prototype object, which is truthy: no entry is created and the increments
\* are applied to that inherited object, so byMethod keeps its own entries
recordByMethod(byMethod, method, success) ==
  IF method \notin DOMAIN byMethod /\ method \in InheritedNames THEN byMethod
  ELSE
  LET old == IF method \in DOMAIN byMethod THEN byMethod[method]
             ELSE [total |-> 0, success |-> 0, errors |-> 0]
      new == [total |-> old.total + 1,
              success |-> IF success THEN old.success + 1 ELSE old.success,
              errors |-> IF success THEN old.errors ELSE old.errors + 1]
  IN [k \in DOMAIN byMethod \cup {method} |-> IF k = method THEN new ELSE byMethod[k]]

\* the calls made before the run ends
MaxSamples == 3

\* latencies at, between, below and above the bounds; Undefined is a call
\* without a latency
LatencyValues ==
  {Undefined} \cup {Num(n) : n \in {0, 10, 11, 100, 5000, 5001}}

\* method names: a registered function, the fallback of the catch block, and
\* a name the dispatcher finds on Object.prototype and runs to success
MethodNames == {"pricefeed", "unknown", "constructor"}

\* cur is the metrics object, probe the latencies recorded so far
MetricsInit ==
  /\ wallet = "key1"
  /\ cur = [requests |-> ZeroMetrics, byMethod |-> EmptyMap, latency |-> ZeroLatency]
  /\ prev = None
  /\ probe = <<>>
  /\ now = 0
  /\ store = [l \in Limiters |-> EmptyMap]
  /\ hist = [l \in Limiters |-> EmptyMap]
  /\ last = None
  /\ reqs = <<>>
  /\ running = 0

\* metrics.recordRequest(method, success, latency)
RecordRequest(method, success, latency) ==
  /\ cur.requests.total < MaxSamples
  /\ cur' = [requests |-> recordRequest(cur.requests, success),
             byMethod |-> recordByMethod(cur.byMethod, method, success),
             latency |-> recordLatency(cur.latency, latency)]
  /\ probe' = IF latency = Undefined THEN probe ELSE Append(probe, latency.n)
  /\ UNCHANGED <<wallet, prev, now, rlVars, gwVars>>

MetricsNext ==
  \E method \in MethodNames, success \in BOOLEAN, latency \in LatencyValues :
    RecordRequest(method, success, latency)

SpecMetrics == MetricsInit /\ [][MetricsNext]_vars

\* how many of the samples are at most bound
AtMost(samples, bound) == Cardinality({j \in DOMAIN samples : samples[j] <= bound})

\* C30: each recorded latency increments the counter of a bucket with bound b
\* iff it is <= b, and always increments le_inf: after any sequence of
\* recordRequest calls every le_b holds the number of samples with latency
\* <= b and le_inf equals the number of samples.
C30_HistogramCumulative ==
  /\ \A i \in DOMAIN Buckets :
       cur.latency.distribution[leKey(Buckets[i])] = AtMost(probe, Buckets[i])
  /\ cur.latency.distribution["le_inf"] = Len(probe)
  /\ cur.latency.count = Len(probe)

\* three samples: one at the first bound, one between bounds, one above all
C30_Witness ==
  /\ Len(probe) = 3
  /\ \E j \in DOMAIN probe : probe[j] = 10
  /\ \E j \in DOMAIN probe : probe[j] = 11
  /\ \E j \in DOMAIN probe : probe[j] = 5001
  /\ cur.latency.distribution["le_10"] = 1
  /\ cur.latency.distribution["le_50"] = 2
  /\ cur.latency.distribution["le_5000"] = 2
  /\ cur.latency.distribution["le_inf"] = 3

\* the sum of one counter over the own entries of byMethod
RECURSIVE SumByMethod(_, _)
SumByMethod(byMethod, field) ==
  IF DOMAIN byMethod = {} THEN 0
  ELSE LET k == CHOOSE x \in DOMAIN byMethod : TRUE
       IN byMethod[k][field]
          + SumByMethod([j \in DOMAIN byMethod \ {k} |-> byMethod[j]], field)

\* total = success + errors; le_inf = count; the bucket counters are
\* non-decreasing in bound order
GlobalCountersConsistent ==
  /\ cur.requests.total = cur.requests.success + cur.requests.errors
  /\ cur.latency.distribution["le_inf"] = cur.latency.count
  /\ \A i \in 1..(Len(Buckets) - 1) :
       cur.latency.distribution[leKey(Buckets[i])]
         <= cur.latency.distribution[leKey(Buckets[i + 1])]
  /\ cur.latency.distribution[leKey(Buckets[Len(Buckets)])]
       <= cur.latency.distribution["le_inf"]

\* C36: in every state between operations requests.total = requests.success
\* + requests.errors; for each of total, success and errors the sum over all
\* byMethod entries equals the global counter, for every method name passed
\* to recordRequest; le_inf = latency.count; and the bucket counters are
\* non-decreasing in bound order le_10 <= ... <= le_5000 <= le_inf.
C36_SnapshotsConsistent ==
  /\ GlobalCountersConsistent
  /\ \A field \in {"total", "success", "errors"} :
       SumByMethod(cur.byMethod, field) = cur.requests[field]

---------------------------------------------------------------------------
(* Startup: part_000 lines 16-30 and 223-227                                 *)

\* '0x' + '0'.repeat(64)
ZeroKey == "0x" \o Repeat("0", 64)

\* process.env.GATEWAY_PRIVATE_KEY once dotenv has run: unset, empty, or a key
EnvValues == {Undefined, Str(<<>>), Str(<<"key1">>), Str(<<"key2">>)}

\* process.env.GATEWAY_PRIVATE_KEY || '0x' + '0'.repeat(64)
privateKeyOf(env) == IF Truthy(env) THEN Flat(env.s) ELSE ZeroKey

\* new ethers.Wallet(key) for the all-zero key: 0 is not a secp256k1 private
\* key, and the library in use either refuses it or builds the wallet
ZeroKeyOutcomes == {"thrown", "created"}

\* cur is the process: where its startup is, its environment, what it has
\* written to the console
StartInit ==
  /\ wallet = None
  /\ cur \in {[pc |-> "init", env |-> env, log |-> <<>>] : env \in EnvValues}
  /\ prev = None
  /\ probe = None
  /\ now = 0
  /\ store = [l \in Limiters |-> EmptyMap]
  /\ hist = [l \in Limiters |-> EmptyMap]
  /\ last = None
  /\ reqs = [r \in {1} |-> Idle]
  /\ running = 0

\* the module is evaluated: the key is read, the wallet made, the address
\* logged with console.log, and app.listen called (lines 16-30, 223-224)
Start(outcome) ==
  /\ cur.pc = "init"
  /\ LET key == privateKeyOf(cur.env)
     IN IF key = ZeroKey /\ outcome = "thrown"
        THEN /\ cur' = [cur EXCEPT !.pc = "crashed"]
             /\ UNCHANGED wallet
        ELSE /\ cur' = [cur EXCEPT !.pc = "started",
                                   !.log = Append(@, [level |-> "log",
                                                      text |-> "Gateway signer address:"])]
             /\ wallet' = key
  /\ UNCHANGED <<prev, probe, now, rlVars, gwVars>>

\* the callback of app.listen (lines 224-227): the server accepts requests
Listening ==
  /\ cur.pc = "started"
  /\ running = 0
  /\ cur' = [cur EXCEPT !.pc = "listening",
                        !.log = @ \o <<[level |-> "log", text |-> "ENS Compute Gateway running on port"],
                                       [level |-> "log", text |-> "Signer address:"]>>]
  /\ UNCHANGED <<wallet, prev, probe, now, rlVars, gwVars>>

StartNext ==
  \/ \E outcome \in ZeroKeyOutcomes : Start(outcome)
  \/ Listening
  \/ cur.pc = "listening" /\ LkFairNext

SpecStart == StartInit /\ [][StartNext]_vars

\* the startup has ended, one way or the other
StartupOver == cur.pc \in {"listening", "crashed"}

\* C31: when GATEWAY_PRIVATE_KEY is unset at startup, the gateway uses the
\* all-zero 32-byte key as its signing key and emits a warning before it
\* begins serving requests.
C31_DefaultKeyWarned ==
  (cur.env = Undefined /\ StartupOver) =>
    /\ cur.pc = "listening"
    /\ wallet = ZeroKey
    /\ \E i \in DOMAIN cur.log : cur.log[i].level = "warn"

---------------------------------------------------------------------------
(* The legacy response: signer.js lines 16-59, part_000 lines 134-152,       *)
(* src/contracts/Verifier.sol                                                *)

\* ethers.toUtf8Bytes(text): the bytes of the string, the tokens joined
toUtf8Bytes(text) == [t |-> "bytes", utf8 |-> Flat(text)]

\* ethers.keccak256(bytes) / keccak256(data) of Verifier.sol
keccak256Bytes(bytes) == [t |-> "bytes32", pre |-> bytes.utf8]

\* mutant: the hash of the data signed as it is, without the EIP-191 wrapping
signData_rawHash(dataBytes, key) == sign(key, keccak256Bytes(dataBytes))

\* signData(dataBytes, wallet)
signData(dataBytes, key) ==
  LET dataHash == keccak256Bytes(dataBytes)
      messageHash == messageHashOf(EIP191Prefix, dataHash)
  IN sign(key, messageHash)

\* signResult(result, wallet)
signResult(result, key) == signData(toUtf8Bytes(JSONstringify(result)), key)

\* AbiCoder.encode(types, values) and AbiCoder.decode(types, data)
abiEncode(types, values) == [t |-> "abi", types |-> types, values |-> values]
abiDecode(types, data) == IF data.types = types THEN data.values ELSE Thrown

\* part_000 lines 136-151: the body of the legacy response
legacyResponse(result, key) ==
  LET signature == signResult(result, key)
  IN [data |-> abiEncode(<<"bytes", "bytes">>,
                         <<toUtf8Bytes(JSONstringify(result)), signature>>)]

\* the length in bytes of what signMessage is given: a 32-byte hash, or text
messageLength(message) ==
  IF message.t = "bytes32" THEN 32 ELSE Len(message.utf8)

\* ethers.hashMessage(message): "\x19Ethereum Signed Message:\n", the length
\* in decimal, the message
hashMessage(message) ==
  messageHashOf("\\x19Ethereum Signed Message:\\n" \o ToString(messageLength(message)),
                message)

\* wallet.signMessage(message)
signMessage(key, message) == sign(key, hashMessage(message))

ZeroAddress == "0x0000"

\* Verifier.verify(data, signature, signer); every signature of the model has
\* 65 bytes
VerifierVerify(data, signature, signer) ==
  LET messageHash == messageHashOf(EIP191Prefix, keccak256Bytes(data))
      recoveredSigner == recoverAddress(messageHash, signature)
  IN /\ toLowerCase(recoveredSigner) = toLowerCase(signer)
     /\ recoveredSigner # ZeroAddress

\* results of compute functions, one with the characters JSON escapes
LegacyResults == {
  resultOf("pricefeed"), resultOf("daovotes"), Obj(<<>>),
  Obj(<< <<"note", Str(<<"a", "\"", "b", "\\">>)>> >>) }

\* cur is the result to answer with, probe the response body, last the last
\* call of the Verifier
LegacyInit ==
  /\ wallet \in Keys
  /\ cur \in {[result |-> r] : r \in LegacyResults}
  /\ prev = None
  /\ probe = None
  /\ now = 0
  /\ store = [l \in Limiters |-> EmptyMap]
  /\ hist = [l \in Limiters |-> EmptyMap]
  /\ last = None
  /\ reqs = <<>>
  /\ running = 0

\* the legacy branch of the handler builds its response
LegacyRespond ==
  /\ probe = None
  /\ probe' = legacyResponse(cur.result, wallet)
  /\ UNCHANGED <<wallet, cur, prev, now, rlVars, gwVars>>

\* a client decodes the response and calls the Verifier with the signature
\* and with data and a signer of its choice
LegacyVerify(result, signer) ==
  /\ probe # None
  /\ LET decoded == abiDecode(<<"bytes", "bytes">>, probe.data)
         data == toUtf8Bytes(JSONstringify(result))
     IN last' = [t |-> "verify", data |-> data, signer |-> signer,
                 valid |-> VerifierVerify(data, decoded[2], signer)]
  /\ UNCHANGED <<envVars, now, store, hist, gwVars>>

LegacyNext ==
  \/ LegacyRespond
  \/ \E result \in LegacyResults, signer \in Addresses : LegacyVerify(result, signer)

SpecLegacy == LegacyInit /\ [][LegacyNext]_vars

\* C32: on the legacy path the response has no envelope key and its data
\* ABI-decodes as (bytes, bytes) = (utf8(JSON(result)), signature); the
\* signature is over the EIP-191 wrapping of keccak256(result_bytes), verifies
\* against the gateway signer, is the signature signMessage over the 32-byte
\* keccak256(result_bytes) makes, and the Verifier accepts it for that data
\* and rejects it for any other data.
C32_LegacyResponse ==
  probe # None =>
    LET resultBytes == toUtf8Bytes(JSONstringify(cur.result))
        decoded == abiDecode(<<"bytes", "bytes">>, probe.data)
        hash == messageHashOf(EIP191Prefix, keccak256Bytes(resultBytes))
    IN /\ DOMAIN probe = {"data"}
       /\ decoded # Thrown
       /\ decoded[1] = resultBytes
       /\ decoded[2] = signMessage(wallet, keccak256Bytes(resultBytes))
       /\ recoverAddress(hash, decoded[2]) = Address(wallet)
       /\ last # None =>
            (last.valid <=> /\ last.data = resultBytes
                            /\ toLowerCase(last.signer) = toLowerCase(Address(wallet)))

\* the Verifier has accepted the response for a result with a quote and a
\* backslash in it
C32_Witness ==
  /\ probe # None
  /\ last # None
  /\ last.valid
  /\ cur.result = Obj(<< <<"note", Str(<<"a", "\"", "b", "\\">>)>> >>)
  /\ last.data = toUtf8Bytes(JSONstringify(cur.result))

---------------------------------------------------------------------------
(* The counters of the pipeline.  signatures.generated and requests.success  *)
(* are the sums, over the requests handled so far, of what each handler has  *)
(* added: reqs[r].recorded while r is in flight.                             *)

\* a POST /lookup whose handler has sent its 200
Succeeded(rec) == rec.route = "lookup" /\ rec.pc = "respond" /\ rec.status = 200

\* C37: in every state between request handlers signatures.generated equals
\* requests.success: a successful POST /lookup (envelope or legacy path) has
\* recorded exactly one success sample and exactly one generated signature,
\* both in the same step, and no other route or failure path has recorded
\* either.
C37_GeneratedEqualsSuccess ==
  \A r \in DOMAIN reqs :
    /\ reqs[r].recorded.generated = reqs[r].recorded.success
    /\ reqs[r].recorded.success = IF Succeeded(reqs[r]) THEN 1 ELSE 0

\* a legacy lookup answered 200 beside a request that was answered otherwise
C37_Witness ==
  \E r, o \in DOMAIN reqs :
    /\ Succeeded(reqs[r])
    /\ reqs[r].path = "legacy"
    /\ reqs[r].recorded.success = 1
    /\ reqs[r].recorded.generated = 1
    /\ reqs[o].pc = "respond"
    /\ ~Succeeded(reqs[o])
    /\ reqs[o].recorded.generated = 0

---------------------------------------------------------------------------
(* Every route behind the limiter: requests to the four GET routes and the   *)
(* two POST routes from one address                                          *)

\* the requests in flight at a time
NumRouteReqs == 3

RoutesInit ==
  /\ wallet = "key1"
  /\ cur = None
  /\ prev = None
  /\ probe = None
  /\ now = 0
  /\ store = [l \in Limiters |-> EmptyMap]
  /\ hist = [l \in Limiters |-> EmptyMap]
  /\ last = None
  /\ reqs = [r \in 1..NumRouteReqs |-> Idle]
  /\ running = 0

RoutesNext ==
  \/ \E r \in 1..NumRouteReqs, q \in RouteIncoming : Arrive(r, q)
  \/ \E r \in 1..NumRouteReqs : EnterCheck(r)
  \/ \E r \in 1..NumRouteReqs : Compare(r)
  \/ \E r \in 1..NumRouteReqs : Push(r)
  \/ \E r \in 1..NumRouteReqs : GetHandler(r)
  \/ \E r \in 1..NumRouteReqs : Validate(r)
  \/ \E r \in 1..NumRouteReqs : Handler(r)
  \/ \E r \in 1..NumRouteReqs, outcome \in LookupCatchOutcomes :
       ComputeReturns(r, TRUE, outcome)
  \/ \E r \in 1..NumRouteReqs, outcome \in LookupCatchOutcomes : SignReturns(r, outcome)
  \/ \E r \in 1..NumRouteReqs : ResponseWritten(r)
  \/ Cleanup
  \/ Tick

SpecRoutes == RoutesInit /\ [][RoutesNext]_vars

\* the bucket of the one address of these requests
RouteBucket == bucketOf(store["ip"], "ip1")

\* what a step of request r must be, whatever its route: it leaves the
\* limiter's comparison with a 429 iff the bucket of its key is full, it
\* reaches a handler or the validator only from the push, and the push adds
\* the time of its check to the bucket of its key
LimitedStep(r) ==
  /\ (reqs[r].pc = "compare" /\ reqs'[r].pc # "compare") =>
       IF Len(RouteBucket) >= maxRequests("ip")
       THEN reqs'[r].pc = "respond" /\ reqs'[r].status = 429 /\ store' = store
       ELSE reqs'[r].pc = "push"
  /\ (reqs[r].pc # reqs'[r].pc /\ reqs'[r].pc \in {"get", "validate"}) =>
       /\ reqs[r].pc = "push"
       /\ bucketOf(store'["ip"], "ip1") = Append(RouteBucket, reqs[r].t)
  /\ (reqs[r].pc # "respond" /\ reqs'[r].pc = "respond" /\ reqs'[r].status = 200) =>
       reqs[r].pc \in {"get", "signing"}
  /\ reqs'[r].pc \in {"get", "validate", "handler", "computing", "signing"} =>
       reqs'[r].trace # <<>> /\ reqs'[r].trace[1] = "admit"

\* C38: every route passes through the rate limiter, not only the
\* dispatching ones: a request to GET /health, /metrics, /api/metrics or
\* /functions from a key that is at its limit is answered 429, and every
\* admitted request to any route consumes one slot of that key's window, so
\* such requests count against the budget of POST /lookup and POST /compute.
C38_EveryRouteLimited ==
  [][\A r \in 1..NumRouteReqs : LimitedStep(r)]_vars

\* an admitted GET and an admitted POST /lookup have filled the window of the
\* address, and a GET from it is answered 429
C38_Witness ==
  /\ now = 0
  /\ Len(RouteBucket) = maxRequests("ip")
  /\ \E a, b, c \in 1..NumRouteReqs :
       /\ reqs[a].route \in GetRoutes /\ reqs[a].pc = "respond" /\ reqs[a].status = 200
       /\ reqs[b].route = "lookup" /\ reqs[b].pc = "respond" /\ reqs[b].status = 200
       /\ reqs[c].route \in GetRoutes /\ reqs[c].pc = "respond" /\ reqs[c].status = 429

---------------------------------------------------------------------------
(* The node check of POST /lookup                                            *)

\* the body of request r has no node, or the empty string as its node
NodeAbsentOrEmpty(r) ==
  /\ reqs[r].route = "lookup"
  /\ reqs[r].body # Undefined
  /\ Get(reqs[r].body, "node") \in {Undefined, Str(<<>>)}

\* the handler of request r runs in this step
Handled(r) == reqs[r].pc = "handler" /\ reqs'[r].pc # "handler"

\* C39: POST /lookup with an absent or empty node is answered 400 with
\* {error: 'Missing node parameter'} after validation and before call-data
\* decoding; no compute function is dispatched and nothing is signed for it,
\* although the validator treats node as optional (it reports no node error
\* for such a body).
C39_MissingNodeRefused ==
  [][\A r \in DOMAIN reqs :
       NodeAbsentOrEmpty(r) =>
         /\ ~reqs'[r].dispatched /\ ~reqs'[r].signed
         /\ reqs'[r].status \notin {200, 500}
         /\ Validated(r) => ~HasDetail(reqs'[r], "Invalid node parameter")
         /\ Handled(r) =>
              /\ reqs'[r].pc = "respond"
              /\ reqs'[r].status = 400
              /\ reqs'[r].resp = "Missing node parameter"
              /\ reqs'[r].trace = <<"admit", "validate", "respond">>]_vars

\* a lookup without a usable node has passed the validator and is answered by
\* the handler
C39_Witness ==
  \E r \in DOMAIN reqs :
    /\ reqs[r].route = "lookup"
    /\ reqs[r].pc = "respond"
    /\ reqs[r].status = 400
    /\ reqs[r].resp = "Missing node parameter"
    /\ reqs[r].trace = <<"admit", "validate", "respond">>
    /\ ~reqs[r].dispatched

====
